---- MODULE Spec2Model ----
(***************************************************************************)
(* A model of the presentation auditor: the Issue record and its equality  *)
(* contract (models.py), the numerical tolerance clustering                *)
(* (detectors/numerical.py), the oracle client's retry loop                *)
(* (gemini_wrapper.py), the unified detector hub (detector_hub.py) and the *)
(* command-line driver (main.py).                                          *)
(*                                                                         *)
(* Conventions.  Confidences are percentages (0.9 is 90).  Numeric values  *)
(* are integers and the relative difference of two values is compared in   *)
(* exact arithmetic (floating-point rounding is not modelled).  A text is  *)
(* a model value (a string naming it); a Python exception is the string of *)
(* its kind.  Each sub-system has its own specification; the variables of  *)
(* the other sub-systems stay at their idle values under it.               *)
(***************************************************************************)
EXTENDS Integers, Sequences, FiniteSets, TLC

\* ------------------------------------------------------------------ bounds
MaxSlideNum == 2
MaxSlidesLen == 2
MaxRetriesBound == 3
MaxValue == 12
MaxOccurrences == 3
MaxDeck == 2
MaxResponseLen == 5
MaxEvents == 2
MaxPercentages == 3
MaxClaims == 3
MaxNumberLen == 5
MaxGroupLen == 3

\* the words of a description of an event, at most
MaxWords == 4

VARIABLES
  \* models.py: two Issue values and a Python set they are placed in
  issueA, issueB, issueSet, issuePc,
  \* gemini_wrapper.py: one generate_text request
  max_retries, attempt, events, genResult, genPc,
  \* detectors/numerical.py: the detector's tolerance, one tolerance test,
  \* and the metric registry with the issues found in it
  tolerance_pct, val1, val2, tolResult, registry, numIssues, numPc,
  \* detector_hub.py: the deck, the per-slide analyses, the loop index, the
  \* issues, what detect_all_inconsistencies ended with, and the requests and
  \* sleeps made so far
  deck, slide_data, hubIndex, hubIssues, hubResult, hubEvents, hubPc,
  \* main.py: where main is, what it logged, its exit status
  mainPc, mainLog, exit_status,
  \* detector_hub.py, _clean_and_parse_json: a response text, what the parse
  \* gives, and the analysis its caller returns
  response_text, parseReply, parseAnalysis, parsePc,
  \* detectors/timeline.py: the events extracted from the slides, in
  \* extraction order, and the issues found
  timeline_events, timelineIssues, timelinePc,
  \* detectors/percentage.py: the percentages found in the text of a slide,
  \* the requests made for them, and the issues found
  pct_values, pctRequests, pctIssues, pctPc,
  \* detectors/textual.py: the business claims of the slides, their
  \* embeddings, the pairs selected and how far the loop over them is, the
  \* verdict cache, the oracle requests made, what each analysis of a pair
  \* gave, and the issues found
  business_claims, embeddings, pairs_to_analyze, pairIndex, contradiction_cache,
  oracleCalls, analysed, textIssues, textPc,
  \* detectors/numerical.py: the two arguments of one call of _normalize_value
  \* and what it returns
  number_str, suffix, normalized, normPc,
  \* detectors/numerical.py: the occurrences of one metric in one unit and
  \* the groups _group_by_tolerance makes of them
  grouped_occurrences, tolerance_groups, groupPc,
  \* detectors/timeline.py: the date string one sentence holds, the year of
  \* the clock, and the dates of the events _find_dates_in_sentence returns
  date_match, current_year, sentence_dates, datePc,
  \* detectors/timeline.py: the descriptions of the two events of one call of
  \* _events_seem_related and what it returns for them in either order
  description1, description2, related12, related21, relatedPc

issueVars == <<issueA, issueB, issueSet, issuePc>>
genVars == <<max_retries, attempt, events, genResult, genPc>>
numVars == <<tolerance_pct, val1, val2, tolResult, registry, numIssues, numPc>>
hubVars == <<deck, slide_data, hubIndex, hubIssues, hubResult, hubEvents, hubPc>>
mainVars == <<mainPc, mainLog, exit_status>>
parseVars == <<response_text, parseReply, parseAnalysis, parsePc>>
timelineVars == <<timeline_events, timelineIssues, timelinePc>>
pctVars == <<pct_values, pctRequests, pctIssues, pctPc>>
textVars == <<business_claims, embeddings, pairs_to_analyze, pairIndex,
              contradiction_cache, oracleCalls, analysed, textIssues, textPc>>
normVars == <<number_str, suffix, normalized, normPc>>
groupVars == <<grouped_occurrences, tolerance_groups, groupPc>>
dateVars == <<date_match, current_year, sentence_dates, datePc>>
relatedVars == <<description1, description2, related12, related21, relatedPc>>
vars == <<issueVars, genVars, numVars, hubVars, mainVars, parseVars, timelineVars, pctVars,
          textVars, normVars, groupVars, dateVars, relatedVars>>

\* --------------------------------------------------------------- utilities
Range(s) == {s[i] : i \in 1..Len(s)}

SeqsUpTo(S, n) == UNION {[1..k -> S] : k \in 0..n}

RECURSIVE InsertSorted(_, _)
InsertSorted(x, s) ==
  IF s = <<>> THEN <<x>>
  ELSE IF x <= Head(s) THEN <<x>> \o s
  ELSE <<Head(s)>> \o InsertSorted(x, Tail(s))

\* Python's sorted() on a list of ints
RECURSIVE sorted(_)
sorted(s) == IF s = <<>> THEN <<>> ELSE InsertSorted(Head(s), sorted(Tail(s)))

\* ---------------------------------------------------------------- models.py
IssueTypes == {"numerical_conflict", "textual_contradiction"}
Descriptions == {"d1", "d2"}
Details == {"x1", "x2"}
Confidences == {75, 90}

\* dataclass Issue
Issue(slides, issue_type, description, details, confidence) ==
  [slides |-> slides, issue_type |-> issue_type, description |-> description,
   details |-> details, confidence |-> confidence]

IssueUniverse ==
  {Issue(s, t, d, x, c) : s \in SeqsUpTo(1..MaxSlideNum, MaxSlidesLen),
     t \in IssueTypes, d \in Descriptions, x \in Details, c \in Confidences}

\* Issue.__hash__: the hash of the tuple; the tuple stands for its hash
\* (two different tuples are taken to hash differently).
IssueHash(self) ==
  <<sorted(self.slides), self.issue_type, self.description, self.details>>

\* Issue.__eq__ (both operands Issues)
IssueEqWithConfidence(self, other) ==
  /\ sorted(self.slides) = sorted(other.slides)
  /\ self.issue_type = other.issue_type
  /\ self.description = other.description
  /\ self.details = other.details
  /\ self.confidence = other.confidence

IssueEq(self, other) ==
  /\ sorted(self.slides) = sorted(other.slides)
  /\ self.issue_type = other.issue_type
  /\ self.description = other.description
  /\ self.details = other.details

\* set.add: x is dropped when a stored element has its hash and equals it
SetAdd(S, x) ==
  IF \E e \in S : IssueHash(e) = IssueHash(x) /\ IssueEq(e, x) THEN S ELSE S \cup {x}

IdleIssue ==
  /\ issueA = Issue(<<>>, "numerical_conflict", "d1", "x1", 90)
  /\ issueB = issueA
  /\ issueSet = {}
  /\ issuePc = "idle"

InitIssue ==
  /\ issueA \in IssueUniverse
  /\ issueB \in IssueUniverse
  /\ issueSet = {}
  /\ issuePc = "start"

\* {issueA, issueB}: both values placed in one set, in this order
BuildSet ==
  /\ issuePc = "start"
  /\ issueSet' = SetAdd(SetAdd({}, issueA), issueB)
  /\ issuePc' = "built"
  /\ UNCHANGED <<issueA, issueB>>

\* -------------------------------------------------------- gemini_wrapper.py
\* What one model.generate_content call can give: a response with a text, a
\* response without one, or an exception.  The code knows an exception only
\* by its message, so an exception is the pair of facts the code reads from
\* it: whether the message holds one of 'quota', '429', 'rate limit', and
\* whether it holds one of 'billing', 'permission', 'authentication'.
Texts == {"response", "   "}

ApiErrors == {[quota |-> q, config |-> c] : q \in BOOLEAN, c \in BOOLEAN}

CallOutcomes ==
  {[kind |-> "response", text |-> t] : t \in Texts \cup {""}}
    \cup {[kind |-> "exception", error |-> e] : e \in ApiErrors}

\* str.strip
Strip(t) == IF t = "   " THEN "" ELSE t

\* ValueError("Empty response from Gemini"): none of the terms is in it
EmptyResponseError == [quota |-> FALSE, config |-> FALSE]

\* Exception("Rate limit exceeded. Free tier quota exhausted.")
RateLimitExceeded == [quota |-> TRUE, config |-> FALSE]

\* Exception("All retry attempts failed")
AllRetriesFailed == [quota |-> FALSE, config |-> FALSE]

\* wait_time = 60
QuotaWaitTime == 60

RECURSIVE Pow2(_)
Pow2(n) == IF n <= 0 THEN 1 ELSE 2 * Pow2(n - 1)

WaitTimeExponential(att) == QuotaWaitTime * Pow2(att - 1)

\* the wait of attempt att > 0
WaitTime(att) == QuotaWaitTime

InRangeInclusive(att, n) == att <= n

\* for attempt in range(self.max_retries)
InRange(att, n) == att < n

\* response and hasattr(response, 'text') and response.text
HasText(o) == o.kind = "response" /\ o.text /= ""

\* the exception the except clause sees
Raised(o) == IF o.kind = "exception" THEN o.error ELSE EmptyResponseError

Sleep(secs) == [kind |-> "sleep", secs |-> secs]
Call(o) == [kind |-> "call", outcome |-> o]

IdleGen ==
  /\ max_retries = 0
  /\ attempt = 0
  /\ events = <<>>
  /\ genResult = [kind |-> "none"]
  /\ genPc = "idle"

InitGen ==
  /\ max_retries \in 0..MaxRetriesBound
  /\ attempt = 0
  /\ events = <<>>
  /\ genResult = [kind |-> "none"]
  /\ genPc = "loop"

\* one iteration of the retry loop: the wait, the call, the handling
Attempt(o) ==
  /\ genPc = "loop"
  /\ InRange(attempt, max_retries)
  /\ events' = events \o (IF attempt > 0 THEN <<Sleep(WaitTime(attempt))>> ELSE <<>>)
                     \o <<Call(o)>>
  /\ IF HasText(o)
       THEN /\ genResult' = [kind |-> "returned", text |-> Strip(o.text)]
            /\ genPc' = "done"
            /\ UNCHANGED attempt
       ELSE LET e == Raised(o) IN
            IF e.quota
              THEN IF attempt < max_retries - 1
                     THEN /\ attempt' = attempt + 1
                          /\ UNCHANGED <<genResult, genPc>>
                     ELSE /\ genResult' = [kind |-> "raised", error |-> RateLimitExceeded]
                          /\ genPc' = "done"
                          /\ UNCHANGED attempt
              ELSE IF e.config
                     THEN /\ genResult' = [kind |-> "raised", error |-> e]
                          /\ genPc' = "done"
                          /\ UNCHANGED attempt
                     ELSE IF attempt >= max_retries - 1
                            THEN /\ genResult' = [kind |-> "raised", error |-> e]
                                 /\ genPc' = "done"
                                 /\ UNCHANGED attempt
                            ELSE /\ attempt' = attempt + 1
                                 /\ UNCHANGED <<genResult, genPc>>
  /\ UNCHANGED max_retries

\* the loop ran out without a return or a raise
LoopExit ==
  /\ genPc = "loop"
  /\ ~InRange(attempt, max_retries)
  /\ genResult' = [kind |-> "raised", error |-> AllRetriesFailed]
  /\ genPc' = "done"
  /\ UNCHANGED <<max_retries, attempt, events>>


\* ---------------------------------------------------- detectors/numerical.py
Abs(x) == IF x < 0 THEN -x ELSE x
Max(a, b) == IF a >= b THEN a ELSE b

\* config.get('tolerance_pct', 1)
DefaultTolerancePct == 1

ValuesWithinToleranceOfFirst(a, b) ==
  IF a = 0 /\ b = 0 THEN TRUE
  ELSE IF a = 0 \/ b = 0 THEN FALSE
  ELSE Abs(a - b) * 100 <= tolerance_pct * Abs(a)

\* _values_within_tolerance: abs(val1 - val2) / max(abs(val1), abs(val2)) * 100
\* <= tolerance_pct, the division multiplied out (the divisor is positive)
ValuesWithinTolerance(a, b) ==
  IF a = 0 /\ b = 0 THEN TRUE
  ELSE IF a = 0 \/ b = 0 THEN FALSE
  ELSE Abs(a - b) * 100 <= tolerance_pct * Max(Abs(a), Abs(b))

MetricKeys == {"annual_savings", "time_saved"}
MetricValues == {2000000, 2010000, 3000000}
MetricUnits == {"USD_millions", "usd_m", "minutes"}

\* str.lower on the units of the model
Lower(unit) == IF unit = "USD_millions" THEN "usd_millions" ELSE unit

NormalizeUnitLowerOnly(unit) == Lower(unit)

\* _normalize_unit
NormalizeUnit(unit) ==
  LET unit_lower == Lower(unit) IN
  CASE unit_lower \in {"usd_millions", "usd_million", "dollars_millions"} -> "usd_m"
    [] unit_lower \in {"minutes", "minute"} -> "min"
    [] unit_lower \in {"hours", "hour"} -> "hr"
    [] OTHER -> unit_lower

\* registry[key].append(...) on a dict that keeps insertion order: the
\* registry is the sequence of its (key, occurrences) items
RegistryAppend(reg, key, occ) ==
  IF \E i \in 1..Len(reg) : reg[i].key = key
    THEN [i \in 1..Len(reg) |->
            IF reg[i].key = key THEN [reg[i] EXCEPT !.occs = Append(@, occ)] ELSE reg[i]]
    ELSE Append(reg, [key |-> key, occs |-> <<occ>>])

\* unit_groups[normalized_unit].append((value, slide_num, sentence))
RECURSIVE UnitGroups(_)
UnitGroups(occs) ==
  IF occs = <<>> THEN <<>>
  ELSE LET before == UnitGroups(SubSeq(occs, 1, Len(occs) - 1))
           occ == occs[Len(occs)]
       IN RegistryAppend(before, NormalizeUnit(occ.unit),
                         [value |-> occ.value, slide_num |-> occ.slide_num])

LastGroupFor(groups, value) ==
  LET hits == {g \in 1..Len(groups) : ValuesWithinTolerance(value, groups[g][1].value)}
  IN IF hits = {} THEN 0 ELSE CHOOSE g \in hits : \A h \in hits : g >= h

FirstGroupForLastMember(groups, value) ==
  LET hits == {g \in 1..Len(groups) :
                 ValuesWithinTolerance(value, groups[g][Len(groups[g])].value)}
  IN IF hits = {} THEN 0 ELSE CHOOSE g \in hits : \A h \in hits : g <= h

\* the first group whose representative is within tolerance, 0 when none
FirstGroupFor(groups, value) ==
  LET hits == {g \in 1..Len(groups) : ValuesWithinTolerance(value, groups[g][1].value)}
  IN IF hits = {} THEN 0 ELSE CHOOSE g \in hits : \A h \in hits : g <= h

\* _group_by_tolerance
RECURSIVE GroupByTolerance(_)
GroupByTolerance(occs) ==
  IF occs = <<>> THEN <<>>
  ELSE LET groups == GroupByTolerance(SubSeq(occs, 1, Len(occs) - 1))
           occ == occs[Len(occs)]
           g == FirstGroupFor(groups, occ.value)
       IN IF g = 0 THEN Append(groups, <<occ>>)
          ELSE [groups EXCEPT ![g] = Append(@, occ)]

\* values of one metric: 100, 101 and 102 are within 1% of their neighbour
\* and 100 and 102 are not
GroupValues == {0, 100, 101, 102, 200}

IdleGroup ==
  /\ grouped_occurrences = <<>>
  /\ tolerance_groups = <<>>
  /\ groupPc = "idle"

\* the occurrences of a metric key in one unit, on slides 1 and 2 in the
\* order of the slides
InitGroup ==
  /\ grouped_occurrences \in
       {occs \in SeqsUpTo([value : GroupValues, slide_num : 1..2], MaxGroupLen) :
          \A k \in 1..(Len(occs) - 1) : occs[k].slide_num <= occs[k + 1].slide_num}
  /\ tolerance_groups = <<>>
  /\ groupPc = "start"

\* value_groups = self._group_by_tolerance(unit_occurrences)
GroupOccurrences ==
  /\ groupPc = "start"
  /\ tolerance_groups' = GroupByTolerance(grouped_occurrences)
  /\ groupPc' = "done"
  /\ UNCHANGED grouped_occurrences

\* _format_currency: the scale letter and the value in tenths of the scale
\* (10^12 is written as 10^6 * 10^6 to stay within 32-bit integers)
FormatCurrency(value) ==
  LET Tenths(scale) == (value * 10 + scale \div 2) \div scale IN
  IF value \div 1000000 >= 1000000
    THEN [style |-> "$T", shown |-> (value \div 100000 + 500000) \div 1000000]
  ELSE IF value >= 1000000000 THEN [style |-> "$B", shown |-> Tenths(1000000000)]
  ELSE IF value >= 1000000 THEN [style |-> "$M", shown |-> Tenths(1000000)]
  ELSE IF value >= 1000 THEN [style |-> "$K", shown |-> Tenths(1000)]
  ELSE [style |-> "$", shown |-> value]

\* _format_value, of the lower-case units of the model ('usd' in unit_lower
\* is the first test)
FormatValue(value, unit) ==
  CASE unit \in {"usd_m", "usd_millions"} -> FormatCurrency(value)
    [] unit \in {"hours", "hr", "hour"} -> [style |-> "hours", shown |-> value]
    [] unit \in {"minutes", "min", "minute"} -> [style |-> "minutes", shown |-> value]
    [] OTHER -> [style |-> "plain", shown |-> value]

\* metric_key.replace('_', ' ').title() in "Conflicting ... values detected"
ConflictDescription(metric_key) ==
  CASE metric_key = "annual_savings" -> "Conflicting Annual Savings values detected"
    [] metric_key = "time_saved" -> "Conflicting Time Saved values detected"

RECURSIVE Flatten(_)
Flatten(ss) == IF ss = <<>> THEN <<>> ELSE Head(ss) \o Flatten(Tail(ss))

RECURSIVE SetToSeq(_)
SetToSeq(S) ==
  IF S = {} THEN <<>>
  ELSE LET m == CHOOSE x \in S : \A y \in S : x <= y IN <<m>> \o SetToSeq(S \ {m})

\* _create_conflict_issue; list(set(all_slides)) is taken in ascending order
CreateConflictIssue(metric_key, unit, value_groups) ==
  LET GroupSlides(group) == [i \in 1..Len(group) |-> group[i].slide_num]
      all_slides == Flatten([g \in 1..Len(value_groups) |-> GroupSlides(value_groups[g])])
      value_summaries ==
        [g \in 1..Len(value_groups) |->
           [value |-> FormatValue(value_groups[g][1].value, unit),
            slides |-> GroupSlides(value_groups[g])]]
  IN Issue(SetToSeq(Range(all_slides)), "numerical_conflict",
           ConflictDescription(metric_key), value_summaries, 90)

\* the inner loop of _find_genuine_conflicts over the unit groups of one key
RECURSIVE UnitGroupIssues(_, _)
UnitGroupIssues(metric_key, groups) ==
  IF groups = <<>> THEN <<>>
  ELSE LET unit == Head(groups).key
           unit_occurrences == Head(groups).occs
           value_groups == GroupByTolerance(unit_occurrences)
           rest == UnitGroupIssues(metric_key, Tail(groups))
       IN IF Len(unit_occurrences) < 2 THEN rest
          ELSE IF Len(value_groups) > 1
            THEN <<CreateConflictIssue(metric_key, unit, value_groups)>> \o rest
            ELSE rest

\* _find_genuine_conflicts
RECURSIVE FindGenuineConflicts(_)
FindGenuineConflicts(reg) ==
  IF reg = <<>> THEN <<>>
  ELSE LET rest == FindGenuineConflicts(Tail(reg)) IN
       IF Len(Head(reg).occs) < 2 THEN rest
       ELSE UnitGroupIssues(Head(reg).key, UnitGroups(Head(reg).occs)) \o rest

RegistrySize(reg) == Len(Flatten([i \in 1..Len(reg) |-> reg[i].occs]))

LastSlide(reg) ==
  LET all == Flatten([i \in 1..Len(reg) |-> reg[i].occs]) IN
  IF all = <<>> THEN 1
  ELSE CHOOSE m \in {all[i].slide_num : i \in 1..Len(all)} :
         \A i \in 1..Len(all) : all[i].slide_num <= m

IdleNum ==
  /\ tolerance_pct = DefaultTolerancePct
  /\ val1 = 0
  /\ val2 = 0
  /\ tolResult = "none"
  /\ registry = <<>>
  /\ numIssues = <<>>
  /\ numPc = "idle"

\* one call of _values_within_tolerance
InitTolerance ==
  /\ tolerance_pct \in {0, DefaultTolerancePct, 10, 50}
  /\ val1 \in (-MaxValue)..MaxValue
  /\ val2 \in (-MaxValue)..MaxValue
  /\ tolResult = "none"
  /\ registry = <<>>
  /\ numIssues = <<>>
  /\ numPc = "tolerance"

CheckTolerance ==
  /\ numPc = "tolerance"
  /\ tolResult' = ValuesWithinTolerance(val1, val2)
  /\ numPc' = "checked"
  /\ UNCHANGED <<tolerance_pct, val1, val2, registry, numIssues>>

\* one run of the detector: the registry is filled slide by slide, then searched
InitNumerical ==
  /\ tolerance_pct = DefaultTolerancePct
  /\ val1 = 0
  /\ val2 = 0
  /\ tolResult = "none"
  /\ registry = <<>>
  /\ numIssues = <<>>
  /\ numPc = "extract"

\* _extract_metrics_batch_optimized: one valid metric of the current or a
\* later slide enters the registry
RegisterMetric(key, value, slide_num, unit) ==
  /\ numPc = "extract"
  /\ RegistrySize(registry) < MaxOccurrences
  /\ slide_num >= LastSlide(registry)
  /\ registry' = RegistryAppend(registry, key,
                   [value |-> value, slide_num |-> slide_num, unit |-> unit])
  /\ UNCHANGED <<tolerance_pct, val1, val2, tolResult, numIssues, numPc>>

\* detect: issues = self._find_genuine_conflicts(metric_registry)
FindConflicts ==
  /\ numPc = "extract"
  /\ numIssues' = FindGenuineConflicts(registry)
  /\ numPc' = "done"
  /\ UNCHANGED <<tolerance_pct, val1, val2, tolResult, registry>>

\* ---------------------------------------------------------- detector_hub.py
\* A parsed oracle response is a JSON value, that is a Python value; each
\* value carries its type.
JNull == [t |-> "null"]
JNum(n) == [t |-> "num", n |-> n]
JStr(str) == [t |-> "str", s |-> str]
JList(items) == [t |-> "list", items |-> items]
JObj(fields) == [t |-> "object", fields |-> fields]

\* isinstance(v, dict)
IsDict(v) == v.t = "object"

\* bool(v)
Truthy(v) ==
  CASE v.t = "null" -> FALSE
    [] v.t = "num" -> v.n /= 0
    [] v.t = "str" -> v.s /= ""
    [] v.t = "list" -> v.items /= <<>>
    [] v.t = "object" -> DOMAIN v.fields /= {}

\* dict.get(key, default)
Get(obj, key, default) == IF key \in DOMAIN obj.fields THEN obj.fields[key] ELSE default

\* config 'request_delay'
RequestDelay == 8

\* get_all_text() of a slide: empty, or some text
SlideTexts == {"", "text"}

DeckTexts == UNION {[1..n -> SlideTexts] : n \in 0..MaxDeck}

\* extract_presentation_content: slides are numbered from 1 in deck order
NumberedDeck(texts) == [i \in 1..Len(texts) |-> [slide_num |-> i, text |-> texts[i]]]

MetricItem == JObj([metric_name |-> JStr("annual_revenue"), value |-> JNum(2000000)])
ClaimItem == JObj([claim |-> JStr("We are the market leader")])
Pct(v) == JObj([value |-> JNum(v), category |-> JStr("market_share")])

Analysis(metrics, claims, percentages) ==
  JObj([business_metrics |-> metrics, business_claims |-> claims,
        percentages |-> percentages])

\* the parsed per-slide responses of the model
Analyses ==
  { Analysis(JList(<<MetricItem>>), JList(<<ClaimItem>>), JList(<<>>)),
    Analysis(JList(<<MetricItem>>), JList(<<>>), JList(<<Pct(45), Pct(35), Pct(25)>>)),
    Analysis(JList(<<>>), JList(<<ClaimItem>>), JList(<<Pct(60), Pct(40)>>)),
    Analysis(JList(<<>>), JList(<<>>), JList(<<>>)),
    Analysis(JList(<<>>), JList(<<>>), JList(<<Pct(150)>>)),
    Analysis(JList(<<>>), JList(<<>>), JList(<<Pct(60), Pct(38)>>)),
    Analysis(JNull, JList(<<>>), JList(<<>>)),
    Analysis(JList(<<JStr("annual revenue")>>), JList(<<>>), JList(<<>>)),
    Analysis(JList(<<>>), JList(<<>>),
             JList(<<JObj([value |-> JNum(45), category |-> JList(<<JStr("share")>>)]),
                     Pct(35)>>)),
    JObj([business_claims |-> JList(<<ClaimItem>>)]),
    JList(<<MetricItem>>) }

\* what one generate_text request of the hub ends with: an exception, or a
\* text; a text is known by what _clean_and_parse_json makes of it
Raise == [kind |-> "raised"]
Unparsable == [kind |-> "text", parse |-> "JSONDecodeError"]
Parsed(v) == [kind |-> "text", parse |-> "ok", value |-> v]

SlideReplies == {Raise, Unparsable} \cup {Parsed(a) : a \in Analyses}

ConflictRecord(confidence) ==
  JObj([conflict_type |-> JStr("numerical_inconsistency"),
        description |-> JStr("Conflicting revenue figures"),
        slides |-> JList(<<JNum(1), JNum(2)>>),
        details |-> JStr("Slide 1 shows $2M revenue while Slide 2 shows $3M revenue."),
        confidence |-> confidence])

ConflictLists ==
  { <<>>,
    <<ConflictRecord(JNum(90))>>,
    <<ConflictRecord(JNum(90)), ConflictRecord(JNum(80))>>,
    <<JObj([description |-> JStr("Conflicting revenue figures")])>>,
    <<ConflictRecord(JNum(90)), ConflictRecord(JStr("high"))>>,
    <<ConflictRecord(JNum(150))>>,
    <<JStr("no conflicts")>> }

ConflictReplies ==
  {Raise, Unparsable, Parsed(JObj([conflicts |-> JList(<<>>)]))}
    \cup {Parsed(JList(c)) : c \in ConflictLists}

\* empty_analysis
EmptyAnalysis(slide_num) ==
  JObj([slide_number |-> JNum(slide_num), business_metrics |-> JList(<<>>),
        percentages |-> JList(<<>>), business_claims |-> JList(<<>>),
        dates_and_timelines |-> JList(<<>>), financial_data |-> JList(<<>>)])

\* a generate_text request: what it is for (0 stands for no single slide)
Request(what, slide_num, reply) ==
  [kind |-> "request", what |-> what, slide |-> slide_num, reply |-> reply]

ComprehensiveSlideAnalysisNoCatch(slide, reply) ==
  IF slide.text = "" THEN EmptyAnalysis(slide.slide_num)
  ELSE IF reply.kind = "raised" \/ reply.parse /= "ok" THEN JStr("exception")
  ELSE reply.value

\* _comprehensive_slide_analysis: the value returned for a slide, given what
\* the request (made only for a slide with text) ends with
ComprehensiveSlideAnalysis(slide, reply) ==
  IF slide.text = "" THEN EmptyAnalysis(slide.slide_num)
  ELSE IF reply.kind = "raised" \/ reply.parse /= "ok" THEN EmptyAnalysis(slide.slide_num)
  ELSE reply.value

\* the keys of slide_data in insertion order, which is slide order
SlideKeys(data) == SetToSeq(DOMAIN data)

\* `for item in field`: a list gives its items, an empty text or an empty
\* dict gives nothing, None and a number cannot be iterated, and the
\* characters of a text or the keys of a dict are texts
Iterate(field) ==
  CASE field.t = "list" -> [error |-> "none", items |-> field.items]
    [] field.t \in {"null", "num"} -> [error |-> "TypeError", items |-> <<>>]
    [] field.t = "str" ->
         IF field.s = "" THEN [error |-> "none", items |-> <<>>]
         ELSE [error |-> "none", items |-> <<JStr("c")>>]
    [] field.t = "object" ->
         IF DOMAIN field.fields = {} THEN [error |-> "none", items |-> <<>>]
         ELSE [error |-> "none", items |-> <<JStr("key")>>]

\* item['slide_number'] = slide_num
Stamp(item, slide_num) == JObj(("slide_number" :> JNum(slide_num)) @@ item.fields)

\* _combine_metrics, _combine_claims, _combine_percentages: the combined list,
\* or the TypeError of a field that cannot be iterated or of an item that is
\* no dict (it takes no 'slide_number')
RECURSIVE CombineFrom(_, _, _)
CombineFrom(data, key, nums) ==
  IF nums = <<>> THEN [error |-> "none", items |-> <<>>]
  ELSE LET slide_num == Head(nums)
           field == IF IsDict(data[slide_num])
                      THEN Iterate(Get(data[slide_num], key, JList(<<>>)))
                      ELSE [error |-> "none", items |-> <<>>]
           rest == CombineFrom(data, key, Tail(nums))
       IN IF field.error /= "none" THEN [error |-> "TypeError", items |-> <<>>]
          ELSE IF \E i \in 1..Len(field.items) : ~IsDict(field.items[i])
                 THEN [error |-> "TypeError", items |-> <<>>]
          ELSE IF rest.error /= "none" THEN rest
          ELSE [error |-> "none",
                items |-> [i \in 1..Len(field.items) |-> Stamp(field.items[i], slide_num)]
                            \o rest.items]

Combine(data, key) == CombineFrom(data, key, SlideKeys(data))

\* slide_data after the three _combine_* calls, none of which failed: the
\* items they appended are the items of the analyses, stamped in place
Stamped(data) ==
  [n \in DOMAIN data |->
     IF ~IsDict(data[n]) THEN data[n]
     ELSE JObj([k \in DOMAIN data[n].fields |->
            IF k \in {"business_metrics", "business_claims", "percentages"}
                 /\ data[n].fields[k].t = "list"
              THEN JList([i \in 1..Len(data[n].fields[k].items) |->
                            Stamp(data[n].fields[k].items[i], n)])
              ELSE data[n].fields[k]])]

\* float(x) succeeds (on a number; the texts of the model are not numerals)
FloatOk(x) == x.t = "num"

\* the body of _detect_metric_conflicts and _detect_claim_conflicts after the
\* request: the issues made of the reply, none when anything in the try fails
ConflictIssues(reply, default_type, default_description) ==
  IF reply.kind = "raised" \/ reply.parse /= "ok" THEN <<>>
  ELSE LET conflicts == reply.value IN
       IF conflicts.t /= "list" THEN <<>>
       ELSE IF \E i \in 1..Len(conflicts.items) :
                 \/ ~IsDict(conflicts.items[i])
                 \/ ~FloatOk(Get(conflicts.items[i], "confidence", JNum(80)))
              THEN <<>>
       ELSE [i \in 1..Len(conflicts.items) |->
               LET conflict == conflicts.items[i]
                   slides == Get(conflict, "slides", JList(<<>>)).items
               IN Issue([k \in 1..Len(slides) |-> slides[k].n],
                        Get(conflict, "conflict_type", JStr(default_type)).s,
                        Get(conflict, "description", JStr(default_description)).s,
                        Get(conflict, "details", JStr("")).s,
                        Get(conflict, "confidence", JNum(80)).n)]

DetectMetricConflicts(reply) ==
  ConflictIssues(reply, "numerical_conflict", "Metric conflict detected")

DetectClaimConflicts(reply) ==
  ConflictIssues(reply, "textual_contradiction", "Claim contradiction detected")

RECURSIVE Sum(_)
Sum(s) == IF s = <<>> THEN 0 ELSE Head(s) + Sum(Tail(s))

CategoryOf(pct) == Get(pct, "category", JStr("unknown_category"))

\* the percentages that pass `if not all([category, slide, isinstance(value,
\* (int, float))]): continue`
KeptPercentages(percentages) ==
  SelectSeq(percentages, LAMBDA pct :
    /\ Truthy(CategoryOf(pct))
    /\ Truthy(pct.fields.slide_number)
    /\ Get(pct, "value", JNull).t = "num")

\* (category, slide) pairs in the order by_category and its inner dicts are
\* filled: categories by first appearance, slides by first appearance in each
RECURSIVE CategorySlides(_)
CategorySlides(kept) ==
  IF kept = <<>> THEN <<>>
  ELSE LET before == CategorySlides(SubSeq(kept, 1, Len(kept) - 1))
           pct == kept[Len(kept)]
           pair == <<CategoryOf(pct), pct.fields.slide_number>>
       IN IF \E i \in 1..Len(before) : before[i] = pair THEN before
          ELSE LET same == {i \in 1..Len(before) : before[i][1] = pair[1]}
                   at == IF same = {} THEN Len(before)
                         ELSE CHOOSE i \in same : \A j \in same : j <= i
               IN SubSeq(before, 1, at) \o <<pair>> \o SubSeq(before, at + 1, Len(before))

\* the Issue of one category on one slide; total is written as {total:.1f}
PercentageIssue(category, slide, total) ==
  Issue(<<slide>>, "percentage_validation",
        "Percentages may not sum correctly for '" \o category \o "'",
        "On slide " \o ToString(slide) \o ", percentages for '" \o category
          \o "' sum to " \o ToString(total) \o ".0%. This might be an error if they represent parts of a whole.",
        75)

\* _check_percentage_conflicts: its issues, or the TypeError of a category
\* that cannot be a dict key (a list)
CheckPercentageConflicts(percentages) ==
  LET kept == KeptPercentages(percentages)
      pairs == CategorySlides(kept)
      Values(pair) ==
        LET of == SelectSeq(kept, LAMBDA pct :
                    <<CategoryOf(pct), pct.fields.slide_number>> = pair)
        IN [i \in 1..Len(of) |-> of[i].fields.value.n]
      flagged == SelectSeq(pairs, LAMBDA pair :
                   /\ Len(Values(pair)) > 1
                   /\ ~(98 < Sum(Values(pair)) /\ Sum(Values(pair)) < 102))
  IN IF \E i \in 1..Len(kept) : CategoryOf(kept[i]).t \in {"list", "object"}
       THEN [error |-> "TypeError", issues |-> <<>>]
       ELSE [error |-> "none",
             issues |-> [i \in 1..Len(flagged) |->
                PercentageIssue(flagged[i][1].s, flagged[i][2].n, Sum(Values(flagged[i])))]]

IdleHub ==
  /\ deck = <<>>
  /\ slide_data = <<>>
  /\ hubIndex = 0
  /\ hubIssues = <<>>
  /\ hubResult = [kind |-> "none"]
  /\ hubEvents = <<>>
  /\ hubPc = "idle"

DelayAfterEverySlide(i, n) == i < n

\* if i < len(slides) - 1: the delay follows every slide but the last
DelayAfter(i, n) == i < n - 1

EnoughToCompareOne(items) == Len(items) >= 1

\* if len(all_metrics) >= 2, if len(all_claims) >= 2
EnoughToCompare(items) == Len(items) >= 2

\* the loop body of _analyze_all_slides for slide i (counted from 0)
AnalyzeSlide(reply) ==
  /\ hubPc = "analyze"
  /\ hubIndex < Len(deck)
  /\ LET slide == deck[hubIndex + 1]
         asked == IF slide.text = "" THEN <<>> ELSE <<Request("slide", slide.slide_num, reply)>>
         slept == IF DelayAfter(hubIndex, Len(deck)) THEN <<Sleep(RequestDelay)>> ELSE <<>>
     IN /\ slide_data' = (slide.slide_num :> ComprehensiveSlideAnalysis(slide, reply))
                            @@ slide_data
        /\ hubEvents' = hubEvents \o asked \o slept
  /\ hubIndex' = hubIndex + 1
  /\ UNCHANGED <<deck, hubIssues, hubResult, hubPc>>

\* _find_cross_slide_conflicts, called when the loop is over (when a
\* _combine_* call raises, slide_data is dropped with the exception)
FindCrossSlideConflicts(metric_reply, claim_reply) ==
  /\ hubPc = "analyze"
  /\ hubIndex = Len(deck)
  /\ LET all_metrics == Combine(slide_data, "business_metrics")
         all_claims == Combine(slide_data, "business_claims")
         all_percentages == Combine(slide_data, "percentages")
         combine_error ==
           IF all_metrics.error /= "none" THEN all_metrics.error
           ELSE IF all_claims.error /= "none" THEN all_claims.error
           ELSE all_percentages.error
         ask_metrics == EnoughToCompare(all_metrics.items)
         ask_claims == EnoughToCompare(all_claims.items)
         metric_issues == IF ask_metrics THEN DetectMetricConflicts(metric_reply) ELSE <<>>
         claim_issues == IF ask_claims THEN DetectClaimConflicts(claim_reply) ELSE <<>>
         percentage == CheckPercentageConflicts(all_percentages.items)
         made == (IF ask_metrics
                    THEN <<Request("metrics", 0, metric_reply), Sleep(RequestDelay)>> ELSE <<>>)
                   \o (IF ask_claims THEN <<Request("claims", 0, claim_reply)>> ELSE <<>>)
     IN IF combine_error /= "none"
          THEN /\ hubResult' = [kind |-> "raised", error |-> combine_error]
               /\ hubPc' = "done"
               /\ UNCHANGED <<slide_data, hubIssues, hubEvents>>
        ELSE IF all_metrics.items = <<>> /\ all_claims.items = <<>>
                  /\ all_percentages.items = <<>>
          THEN /\ hubIssues' = <<>>
               /\ slide_data' = Stamped(slide_data)
               /\ hubPc' = "count"
               /\ UNCHANGED <<hubResult, hubEvents>>
        ELSE IF percentage.error /= "none"
          THEN /\ hubResult' = [kind |-> "raised", error |-> percentage.error]
               /\ slide_data' = Stamped(slide_data)
               /\ hubEvents' = hubEvents \o made
               /\ hubPc' = "done"
               /\ UNCHANGED hubIssues
        ELSE /\ hubIssues' = metric_issues \o claim_issues \o percentage.issues
             /\ slide_data' = Stamped(slide_data)
             /\ hubEvents' = hubEvents \o made
             /\ hubPc' = "count"
             /\ UNCHANGED hubResult
  /\ UNCHANGED <<deck, hubIndex>>

\* the end of detect_all_inconsistencies: the count of API calls (sd.get on
\* every analysis, an AttributeError on one that is no dict), then the return
CountAndReturn ==
  /\ hubPc = "count"
  /\ hubResult' = IF \E n \in DOMAIN slide_data : ~IsDict(slide_data[n])
                    THEN [kind |-> "raised", error |-> "AttributeError"]
                    ELSE [kind |-> "returned"]
  /\ hubPc' = "done"
  /\ UNCHANGED <<deck, slide_data, hubIndex, hubIssues, hubEvents>>

\* ---------------------------------------- detector_hub.py, the JSON clean-up
\* A response text is a sequence of tokens: the brackets, the digit 1, a
\* letter, the newline (the white space of the model) and the fence, the
\* three backquotes taken as one token.
Fence == "fence"
Newline == "nl"
Tokens == {"{", "}", "[", "]", "1", "x", Newline, Fence}
ResponseTexts == SeqsUpTo(Tokens, MaxResponseLen)

\* str.strip
RECURSIVE StripLeft(_)
StripLeft(text) ==
  IF text /= <<>> /\ Head(text) = Newline THEN StripLeft(Tail(text)) ELSE text

RECURSIVE StripRight(_)
StripRight(text) ==
  IF text /= <<>> /\ text[Len(text)] = Newline
    THEN StripRight(SubSeq(text, 1, Len(text) - 1)) ELSE text

StripText(text) == StripRight(StripLeft(text))

\* str.find and str.rfind, positions counted from 1, 0 for not found
Find(text, c) ==
  LET at == {i \in 1..Len(text) : text[i] = c}
  IN IF at = {} THEN 0 ELSE CHOOSE i \in at : \A j \in at : i <= j

RFind(text, c) ==
  LET at == {i \in 1..Len(text) : text[i] = c}
  IN IF at = {} THEN 0 ELSE CHOOSE i \in at : \A j \in at : j <= i

\* lines 35-42: the text stripped, and without its fences when it starts and
\* ends with one
CleanedText(text) ==
  LET cleaned_text == StripText(text)
      first_newline == Find(cleaned_text, Newline)
  IN IF cleaned_text /= <<>> /\ Head(cleaned_text) = Fence
          /\ cleaned_text[Len(cleaned_text)] = Fence
       THEN IF first_newline /= 0
              THEN StripText(SubSeq(cleaned_text, first_newline + 1, Len(cleaned_text) - 1))
              ELSE StripText(SubSeq(cleaned_text, 2, Len(cleaned_text) - 1))
       ELSE cleaned_text

RECURSIVE SkipSpace(_, _)
SkipSpace(text, i) ==
  IF i <= Len(text) /\ text[i] = Newline THEN SkipSpace(text, i + 1) ELSE i

RECURSIVE DigitsEnd(_, _)
DigitsEnd(text, i) ==
  IF i <= Len(text) /\ text[i] = "1" THEN DigitsEnd(text, i + 1) ELSE i

RECURSIVE Ones(_)
Ones(n) == IF n <= 0 THEN 0 ELSE 10 * Ones(n - 1) + 1

NoValue == [ok |-> FALSE, value |-> JNull, next |-> 0]

\* the JSON value that starts at position i: a number, an array of no or
\* one value, an object without members (the tokens spell no key and no
\* comma)
RECURSIVE ParseValue(_, _)
ParseValue(text, i) ==
  IF i > Len(text) THEN NoValue
  ELSE IF text[i] = "1"
    THEN [ok |-> TRUE, value |-> JNum(Ones(DigitsEnd(text, i) - i)),
          next |-> DigitsEnd(text, i)]
  ELSE IF text[i] = "{"
    THEN LET j == SkipSpace(text, i + 1) IN
         IF j <= Len(text) /\ text[j] = "}"
           THEN [ok |-> TRUE, value |-> JObj(<<>>), next |-> j + 1]
           ELSE NoValue
  ELSE IF text[i] = "["
    THEN LET j == SkipSpace(text, i + 1) IN
         IF j <= Len(text) /\ text[j] = "]"
           THEN [ok |-> TRUE, value |-> JList(<<>>), next |-> j + 1]
           ELSE LET item == ParseValue(text, j)
                    k == SkipSpace(text, item.next)
                IN IF item.ok /\ k <= Len(text) /\ text[k] = "]"
                     THEN [ok |-> TRUE, value |-> JList(<<item.value>>), next |-> k + 1]
                     ELSE NoValue
  ELSE NoValue

\* json.loads: one value and nothing but white space around it
JsonLoads(text) ==
  LET v == ParseValue(text, SkipSpace(text, 1)) IN
  IF v.ok /\ SkipSpace(text, v.next) = Len(text) + 1 THEN v ELSE NoValue

\* _clean_and_parse_json: the reply its caller has, the parsed value or the
\* JSONDecodeError
CleanAndParseJson(text) ==
  IF StripText(text) = <<>> THEN Unparsable
  ELSE LET cleaned_text == CleanedText(text)
           first_bracket == Find(cleaned_text, "{")
           first_square == Find(cleaned_text, "[")
           curly == first_bracket /= 0 /\ (first_bracket < first_square \/ first_square = 0)
           start_pos == IF curly THEN first_bracket ELSE first_square
           end_char == IF curly THEN "}" ELSE "]"
           end_pos == RFind(cleaned_text, end_char)
           loaded == JsonLoads(SubSeq(cleaned_text, start_pos, end_pos))
       IN IF first_bracket = 0 /\ first_square = 0 THEN Unparsable
          ELSE IF end_pos /= 0 /\ end_pos > start_pos
            THEN IF loaded.ok THEN Parsed(loaded.value) ELSE Unparsable
            ELSE Unparsable

IdleParse ==
  /\ response_text = <<>>
  /\ parseReply = [kind |-> "none"]
  /\ parseAnalysis = JNull
  /\ parsePc = "idle"

InitParse ==
  /\ response_text \in ResponseTexts
  /\ parseReply = [kind |-> "none"]
  /\ parseAnalysis = JNull
  /\ parsePc = "start"

\* the try block of _comprehensive_slide_analysis for slide 1, the request
\* having returned response_text
ParseResponse ==
  /\ parsePc = "start"
  /\ parseReply' = CleanAndParseJson(response_text)
  /\ parseAnalysis' = ComprehensiveSlideAnalysis([slide_num |-> 1, text |-> "text"],
                                                 CleanAndParseJson(response_text))
  /\ parsePc' = "parsed"
  /\ UNCHANGED response_text

\* ------------------------------- detectors/numerical.py, _normalize_value
\* A float is the pair of an integer m and a power of ten e, of value
\* m * 10^e, with m not a multiple of 10 (0 is m = 0, e = 0).
RECURSIVE Float(_, _)
Float(m, e) ==
  IF m = 0 THEN [m |-> 0, e |-> 0]
  ELSE IF m % 10 = 0 THEN Float(m \div 10, e + 1)
  ELSE [m |-> m, e |-> e]

Digits == {"0", "1", "2", "3", "5"}
NumberChars == Digits \cup {",", ".", "-"}

AllDigits(str) == \A k \in 1..Len(str) : str[k] \in Digits

\* the groups of three digits after the first group: (?:,\d{3})*
RECURSIVE CommaGroups(_)
CommaGroups(str) ==
  \/ str = <<>>
  \/ /\ Len(str) >= 4
     /\ str[1] = ","
     /\ AllDigits(SubSeq(str, 2, 4))
     /\ CommaGroups(SubSeq(str, 5, Len(str)))

\* the first group and the groups after it: \d{1,3}(?:,\d{3})*
IntegerPart(str) ==
  \E n \in 1..3 :
    /\ n <= Len(str)
    /\ AllDigits(SubSeq(str, 1, n))
    /\ CommaGroups(SubSeq(str, n + 1, Len(str)))

\* the texts group 1 of number_pattern matches as a whole:
\* -?\d{1,3}(?:,\d{3})*(?:\.\d+)?
MatchesNumber(str) ==
  LET unsigned == IF str /= <<>> /\ str[1] = "-" THEN Tail(str) ELSE str
      dot == Find(unsigned, ".")
  IN IF dot = 0 THEN IntegerPart(unsigned)
     ELSE /\ IntegerPart(SubSeq(unsigned, 1, dot - 1))
          /\ dot < Len(unsigned)
          /\ AllDigits(SubSeq(unsigned, dot + 1, Len(unsigned)))

\* match.group(1) of the numbers of a slide
NumberStrings == {str \in SeqsUpTo(NumberChars, MaxNumberLen) : MatchesNumber(str)}

\* match.group(2): one of KMBT in either case, or None
Suffixes == {"None", "k", "K", "m", "M", "b", "B", "t", "T"}

\* number_str.replace(',', '')
RemoveCommas(str) == SelectSeq(str, LAMBDA c : c /= ",")

DigitValue(c) ==
  CASE c = "0" -> 0 [] c = "1" -> 1 [] c = "2" -> 2 [] c = "3" -> 3 [] c = "5" -> 5

RECURSIVE DigitsValue(_)
DigitsValue(str) ==
  IF str = <<>> THEN 0
  ELSE DigitsValue(SubSeq(str, 1, Len(str) - 1)) * 10 + DigitValue(str[Len(str)])

\* float() of a text of digits with at most one sign and one point; any other
\* text is a ValueError
ParseFloat(str) ==
  LET negative == str /= <<>> /\ str[1] = "-"
      unsigned == IF negative THEN Tail(str) ELSE str
      dot == Find(unsigned, ".")
      whole == IF dot = 0 THEN unsigned ELSE SubSeq(unsigned, 1, dot - 1)
      fraction == IF dot = 0 THEN <<>> ELSE SubSeq(unsigned, dot + 1, Len(unsigned))
      m == DigitsValue(whole \o fraction)
  IN IF ~AllDigits(whole \o fraction) \/ whole \o fraction = <<>>
       THEN [ok |-> FALSE, value |-> Float(0, 0)]
       ELSE [ok |-> TRUE, value |-> Float(IF negative THEN -m ELSE m, -Len(fraction))]

\* the power of ten of multipliers.get(suffix, 1)
MultiplierUpperOnly(sfx) ==
  CASE sfx = "K" -> 3 [] sfx = "M" -> 6 [] sfx = "B" -> 9 [] sfx = "T" -> 12 [] OTHER -> 0

Multiplier(sfx) ==
  CASE sfx \in {"k", "K"} -> 3
    [] sfx \in {"m", "M"} -> 6
    [] sfx \in {"b", "B"} -> 9
    [] sfx \in {"t", "T"} -> 12
    [] OTHER -> 0

\* _normalize_value
NormalizeValue(str, sfx) ==
  LET parsed == ParseFloat(RemoveCommas(str)) IN
  IF ~parsed.ok THEN Float(0, 0)
  ELSE IF sfx /= "None" THEN Float(parsed.value.m, parsed.value.e + Multiplier(sfx))
  ELSE parsed.value

IdleNorm ==
  /\ number_str = <<>>
  /\ suffix = "None"
  /\ normalized = Float(0, 0)
  /\ normPc = "idle"

InitNorm ==
  /\ number_str \in NumberStrings
  /\ suffix \in Suffixes
  /\ normalized = Float(0, 0)
  /\ normPc = "start"

\* value = self._normalize_value(metric_info['value_part'], metric_info.get('suffix_part'))
Normalize ==
  /\ normPc = "start"
  /\ normalized' = NormalizeValue(number_str, suffix)
  /\ normPc' = "done"
  /\ UNCHANGED <<number_str, suffix>>

\* ----------------------------------------------------- detectors/timeline.py
\* A date is the number yyyymmdd, so that dates compare as the numbers do.
\* A description is the list of its words.  The confidence of an
\* event is in percent; the confidence of a timeline Issue, a product with a
\* factor in percent, is in hundredths of a percent (8100 is 0.81).
EventDates == {20240601, 20250101}
EventTypes == {"past", "future", "ongoing", "completion", "deadline"}

\* the sentences of the model: the description made of one and the
\* confidence _calculate_event_confidence gives it
EventTexts ==
  { [description |-> <<"the", "project", "launch", "[date]">>, confidence |-> 90],
    [description |-> <<"launch", "of", "platform">>, confidence |-> 50],
    [description |-> <<"hiring", "plan">>, confidence |-> 90] }

\* dataclass TimelineEvent (the context is not read by the checks)
TimelineEvent(slide_num, date, description, event_type, confidence) ==
  [slide_num |-> slide_num, date |-> date, description |-> description,
   event_type |-> event_type, confidence |-> confidence]

TimelineEvents ==
  {TimelineEvent(n, d, t.description, ty, t.confidence) :
     n \in 1..2, d \in EventDates, t \in EventTexts, ty \in EventTypes}

\* str(date): yyyy-mm-dd
DateStr(d) ==
  LET Two(n) == IF n < 10 THEN "0" \o ToString(n) ELSE ToString(n)
  IN ToString(d \div 10000) \o "-" \o Two((d \div 100) % 100) \o "-" \o Two(d % 100)

\* evts.sort(key=lambda x: x.date): the sort is stable
RECURSIVE InsertByDate(_, _)
InsertByDate(e, evts) ==
  IF evts = <<>> THEN <<e>>
  ELSE IF e.date < Head(evts).date THEN <<e>> \o evts
  ELSE <<Head(evts)>> \o InsertByDate(e, Tail(evts))

RECURSIVE SortByDate(_)
SortByDate(evts) ==
  IF evts = <<>> THEN <<>>
  ELSE InsertByDate(evts[Len(evts)], SortByDate(SubSeq(evts, 1, Len(evts) - 1)))

CommonWords ==
  {"the", "a", "an", "and", "or", "but", "in", "on", "at", "to", "for", "of", "with",
   "by", "[date]"}

ProjectTerms == {"project", "launch", "product", "feature", "system", "platform", "service"}

Min(a, b) == IF a <= b THEN a ELSE b

\* str.lower on a word of the model
LowerWord(word) ==
  CASE word = "The" -> "the"
    [] word = "Project" -> "project"
    [] word = "[DATE]" -> "[date]"
    [] OTHER -> word

\* set(description.lower().split())
LowerWords(description) == {LowerWord(word) : word \in Range(description)}

\* _events_seem_related with similarity >= 0.25
EventsSeemRelatedAtLeast(event1, event2) ==
  LET desc1_words == LowerWords(event1.description) \ CommonWords
      desc2_words == LowerWords(event2.description) \ CommonWords
      overlap == Cardinality(desc1_words \cap desc2_words)
      least == Min(Cardinality(desc1_words), Cardinality(desc2_words))
      bonus == IF desc1_words \cap ProjectTerms /= {} /\ desc2_words \cap ProjectTerms /= {}
                 THEN 20 ELSE 0
  IN IF desc1_words = {} \/ desc2_words = {} THEN FALSE
     ELSE overlap * 100 + bonus * least >= 25 * least

\* _events_seem_related: overlap / min(...) (+ 0.2) > 0.25, the division
\* multiplied out
EventsSeemRelated(event1, event2) ==
  LET desc1_words == LowerWords(event1.description) \ CommonWords
      desc2_words == LowerWords(event2.description) \ CommonWords
      overlap == Cardinality(desc1_words \cap desc2_words)
      least == Min(Cardinality(desc1_words), Cardinality(desc2_words))
      bonus == IF desc1_words \cap ProjectTerms /= {} /\ desc2_words \cap ProjectTerms /= {}
                 THEN 20 ELSE 0
  IN IF desc1_words = {} \/ desc2_words = {} THEN FALSE
     ELSE overlap * 100 + bonus * least > 25 * least

\* the pairs (i, j), i < j <= n, in the order of the two nested loops
PairsInOrder(n) ==
  Flatten([i \in 1..n |-> [k \in 1..(n - i) |-> <<i, i + k>>]])

\* all pairs of one element of xs and one of ys, xs in the outer loop
Product(xs, ys) ==
  Flatten([i \in 1..Len(xs) |-> [j \in 1..Len(ys) |-> <<xs[i], ys[j]>>]])

ChronologicalIssue(event1, event2) ==
  Issue(<<event1.slide_num, event2.slide_num>>, "chronological_mismatch",
        "Future event scheduled before related past event",
        "Slide " \o ToString(event1.slide_num) \o ": Future event on " \o DateStr(event1.date)
          \o " vs Slide " \o ToString(event2.slide_num) \o ": Past event on "
          \o DateStr(event2.date),
        Min(event1.confidence, event2.confidence) * 90)

\* _check_chronological_order with event1.date <= event2.date
CheckChronologicalOrderSameDay(evts) ==
  LET hits == SelectSeq(PairsInOrder(Len(evts)), LAMBDA pair :
                LET event1 == evts[pair[1]]
                    event2 == evts[pair[2]]
                IN /\ event1.slide_num /= event2.slide_num
                   /\ event1.event_type = "future" /\ event2.event_type = "past"
                   /\ event1.date <= event2.date
                   /\ EventsSeemRelated(event1, event2))
  IN [k \in 1..Len(hits) |-> ChronologicalIssue(evts[hits[k][1]], evts[hits[k][2]])]

\* _check_chronological_order, on the evts sorted by date
CheckChronologicalOrder(evts) ==
  LET hits == SelectSeq(PairsInOrder(Len(evts)), LAMBDA pair :
                LET event1 == evts[pair[1]]
                    event2 == evts[pair[2]]
                IN /\ event1.slide_num /= event2.slide_num
                   /\ event1.event_type = "future" /\ event2.event_type = "past"
                   /\ event1.date < event2.date
                   /\ EventsSeemRelated(event1, event2))
  IN [k \in 1..Len(hits) |-> ChronologicalIssue(evts[hits[k][1]], evts[hits[k][2]])]

\* the completion conflict dampened as a chronological mismatch is
CompletionIssueDampedAsMismatch(completion_event, other_event) ==
  Issue(<<completion_event.slide_num, other_event.slide_num>>, "completion_conflict",
        "Event scheduled after completion/deadline date",
        "Completion/deadline by " \o DateStr(completion_event.date) \o " (slide "
          \o ToString(completion_event.slide_num) \o ") but related event on "
          \o DateStr(other_event.date) \o " (slide " \o ToString(other_event.slide_num) \o ")",
        Min(completion_event.confidence, other_event.confidence) * 90)

CompletionIssue(completion_event, other_event) ==
  Issue(<<completion_event.slide_num, other_event.slide_num>>, "completion_conflict",
        "Event scheduled after completion/deadline date",
        "Completion/deadline by " \o DateStr(completion_event.date) \o " (slide "
          \o ToString(completion_event.slide_num) \o ") but related event on "
          \o DateStr(other_event.date) \o " (slide " \o ToString(other_event.slide_num) \o ")",
        Min(completion_event.confidence, other_event.confidence) * 80)

\* _check_completion_conflicts with the events typed completion only
CheckCompletionConflictsCompletionOnly(evts) ==
  LET completion_events ==
        SelectSeq(evts, LAMBDA e : e.event_type \in {"completion"})
      other_events ==
        SelectSeq(evts, LAMBDA e : e.event_type \notin {"completion"})
      hits == SelectSeq(Product(completion_events, other_events), LAMBDA pair :
                /\ pair[1].slide_num /= pair[2].slide_num
                /\ pair[2].event_type \in {"future", "ongoing"}
                /\ pair[2].date > pair[1].date
                /\ EventsSeemRelated(pair[1], pair[2]))
  IN [k \in 1..Len(hits) |-> CompletionIssue(hits[k][1], hits[k][2])]

\* _check_completion_conflicts
CheckCompletionConflicts(evts) ==
  LET completion_events ==
        SelectSeq(evts, LAMBDA e : e.event_type \in {"completion", "deadline"})
      other_events ==
        SelectSeq(evts, LAMBDA e : e.event_type \notin {"completion", "deadline"})
      hits == SelectSeq(Product(completion_events, other_events), LAMBDA pair :
                /\ pair[1].slide_num /= pair[2].slide_num
                /\ pair[2].event_type \in {"future", "ongoing"}
                /\ pair[2].date > pair[1].date
                /\ EventsSeemRelated(pair[1], pair[2]))
  IN [k \in 1..Len(hits) |-> CompletionIssue(hits[k][1], hits[k][2])]

\* the slide numbers in the order slides_events gets its keys
RECURSIVE SlidesInOrder(_)
SlidesInOrder(evts) ==
  IF evts = <<>> THEN <<>>
  ELSE LET before == SlidesInOrder(SubSeq(evts, 1, Len(evts) - 1))
           n == evts[Len(evts)].slide_num
       IN IF n \in Range(before) THEN before ELSE Append(before, n)

ImpossibleIssue(slide_num, event1, event2) ==
  Issue(<<slide_num>>, "impossible_timeline", "Inconsistent timeline within slide",
        "Slide " \o ToString(slide_num) \o ": Future event (" \o DateStr(event1.date)
          \o ") occurs before past event (" \o DateStr(event2.date) \o ")",
        Min(event1.confidence, event2.confidence) * 90)

\* _check_impossible_timelines
CheckImpossibleTimelines(evts) ==
  LET slides == SlidesInOrder(evts)
      OfSlide(n) == SortByDate(SelectSeq(evts, LAMBDA e : e.slide_num = n))
      IssuesOfSlide(n) ==
        LET slide_events == OfSlide(n)
            at == SelectSeq([i \in 1..(Len(slide_events) - 1) |-> i], LAMBDA i :
                    /\ slide_events[i].event_type = "future"
                    /\ slide_events[i + 1].event_type = "past"
                    /\ slide_events[i].date < slide_events[i + 1].date)
        IN [k \in 1..Len(at) |->
              ImpossibleIssue(n, slide_events[at[k]], slide_events[at[k] + 1])]
  IN Flatten([k \in 1..Len(slides) |-> IssuesOfSlide(slides[k])])

DeadlineIssue(deadline, future_event) ==
  Issue(<<deadline.slide_num, future_event.slide_num>>, "deadline_violation",
        "Future event scheduled after deadline",
        "Deadline: " \o DateStr(deadline.date) \o " (slide " \o ToString(deadline.slide_num)
          \o ") but future event: " \o DateStr(future_event.date) \o " (slide "
          \o ToString(future_event.slide_num) \o ")",
        Min(deadline.confidence, future_event.confidence) * 85)

\* _check_deadline_violations without the skip of a pair of one slide
CheckDeadlineViolationsAnySlide(evts) ==
  LET deadline_events == SelectSeq(evts, LAMBDA e : e.event_type = "deadline")
      future_events == SelectSeq(evts, LAMBDA e : e.event_type = "future")
      hits == SelectSeq(Product(deadline_events, future_events), LAMBDA pair :
                /\ pair[2].date > pair[1].date
                /\ EventsSeemRelated(pair[1], pair[2]))
  IN [k \in 1..Len(hits) |-> DeadlineIssue(hits[k][1], hits[k][2])]

\* _check_deadline_violations
CheckDeadlineViolations(evts) ==
  LET deadline_events == SelectSeq(evts, LAMBDA e : e.event_type = "deadline")
      future_events == SelectSeq(evts, LAMBDA e : e.event_type = "future")
      hits == SelectSeq(Product(deadline_events, future_events), LAMBDA pair :
                /\ pair[1].slide_num /= pair[2].slide_num
                /\ pair[2].date > pair[1].date
                /\ EventsSeemRelated(pair[1], pair[2]))
  IN [k \in 1..Len(hits) |-> DeadlineIssue(hits[k][1], hits[k][2])]

\* _find_timeline_mismatches
FindTimelineMismatches(evts) ==
  CheckChronologicalOrder(evts) \o CheckCompletionConflicts(evts)
    \o CheckImpossibleTimelines(evts) \o CheckDeadlineViolations(evts)

\* TimelineMismatchDetector.detect, the evts extracted
TimelineDetectIssues(evts) ==
  IF Len(evts) < 2 THEN <<>> ELSE FindTimelineMismatches(SortByDate(evts))

IdleTimeline ==
  /\ timeline_events = <<>>
  /\ timelineIssues = <<>>
  /\ timelinePc = "idle"

InitTimeline ==
  /\ timeline_events = <<>>
  /\ timelineIssues = <<>>
  /\ timelinePc = "extract"

\* _extract_timeline_events: one more event, of the slide of the last event
\* or of a later slide
ExtractEvent(event) ==
  /\ timelinePc = "extract"
  /\ Len(timeline_events) < MaxEvents
  /\ timeline_events /= <<>> =>
       event.slide_num >= timeline_events[Len(timeline_events)].slide_num
  /\ timeline_events' = Append(timeline_events, event)
  /\ UNCHANGED <<timelineIssues, timelinePc>>

\* detect, from the sort on
TimelineDetect ==
  /\ timelinePc = "extract"
  /\ timelineIssues' = TimelineDetectIssues(timeline_events)
  /\ timelinePc' = "done"
  /\ UNCHANGED timeline_events

\* one call of _events_seem_related.  The words a description of the model
\* is made of: a stopword, two project-like words, and seven other words
RelatedVocabulary ==
  <<"The", "Project", "launch", "alpha", "beta", "gamma", "delta", "plan", "hiring",
    "budget">>

\* the words of the vocabulary at the positions at, in the order of the
\* vocabulary
RECURSIVE WordsAt(_, _)
WordsAt(at, from) ==
  IF from > Len(RelatedVocabulary) THEN <<>>
  ELSE IF from \in at THEN <<RelatedVocabulary[from]>> \o WordsAt(at, from + 1)
  ELSE WordsAt(at, from + 1)

\* the descriptions of at most MaxWords words
RelatedDescriptions ==
  {WordsAt(at, 1) : at \in {x \in SUBSET (1..Len(RelatedVocabulary)) :
                              Cardinality(x) <= MaxWords}}

IdleRelated ==
  /\ description1 = <<>>
  /\ description2 = <<>>
  /\ related12 = FALSE
  /\ related21 = FALSE
  /\ relatedPc = "idle"

InitRelated ==
  /\ description1 \in RelatedDescriptions
  /\ description2 \in RelatedDescriptions
  /\ related12 = FALSE
  /\ related21 = FALSE
  /\ relatedPc = "call"

\* _events_seem_related(event1, event2) and _events_seem_related(event2, event1)
SeemRelated ==
  /\ relatedPc = "call"
  /\ related12' = EventsSeemRelated([description |-> description1],
                                    [description |-> description2])
  /\ related21' = EventsSeemRelated([description |-> description2],
                                    [description |-> description1])
  /\ relatedPc' = "done"
  /\ UNCHANGED <<description1, description2>>

\* the dates of one sentence.  What date_patterns match in it: nothing, or a
\* date string of one of the forms, naming a year (and a quarter, or a month
\* and a day)
DateForms == {"numeric", "month_name", "quarter", "year"}
DateYears == {0, 1979, 1980, 2024, 2056, 2057, 2058}
CurrentYears == {2026, 2027}

DateMatch(form, year, quarter, month, day) ==
  [form |-> form, year |-> year, quarter |-> quarter, month |-> month, day |-> day]

DateMatches ==
  {DateMatch("none", 0, 0, 0, 0)}
    \cup {DateMatch(form, y, 0, m, d) :
            form \in {"numeric", "month_name"}, y \in DateYears, m \in {1, 12}, d \in {1, 28}}
    \cup {DateMatch("quarter", y, q, 0, 0) : y \in DateYears, q \in 1..4}
    \cup {DateMatch("year", y, 0, m, 1) : y \in DateYears, m \in {1, 12}}

\* datetime.date(year, month, day)
Date(year, month, day) == year * 10000 + month * 100 + day
YearOf(check_date) == check_date \div 10000

\* _is_reasonable_date
IsReasonableDate(check_date) ==
  1980 <= YearOf(check_date) /\ YearOf(check_date) <= current_year + 30

\* dateparser.parse(date_str): no date, or the date the string names (for a
\* bare year, a month the parser chooses and day 1); the list is empty or
\* holds the date
DateparserParse(date_str) ==
  IF date_str.year = 0 THEN {<<>>}
  ELSE {<<>>, <<Date(date_str.year, date_str.month, date_str.day)>>}

\* _parse_date, parsed what dateparser.parse gives: the list is empty for
\* None.  date(0, month, 15) raises, and the except returns None
ParseDate(date_str, parsed) ==
  IF date_str.form = "quarter"
    THEN IF date_str.year = 0 THEN <<>>
         ELSE <<Date(date_str.year, (date_str.quarter - 1) * 3 + 2, 15)>>
  ELSE IF parsed /= <<>> /\ IsReasonableDate(parsed[1]) THEN parsed
  ELSE <<>>

\* dateparser.search.search_dates(sentence): the attribute lookup raises when
\* the submodule was never imported (the list is empty then, as for None),
\* or the search finds a date
SearchDatesOutcomes ==
  {<<>>} \cup {<<Date(y, 6, 15)>> : y \in DateYears \ {0}}
    \cup {<<Date(y, m, d)>> : y \in {2024}, m \in {1, 12}, d \in {1, 28}}

IdleDates ==
  /\ date_match = DateMatch("none", 0, 0, 0, 0)
  /\ current_year = 2026
  /\ sentence_dates = <<>>
  /\ datePc = "idle"

InitDates ==
  /\ date_match \in DateMatches
  /\ current_year \in CurrentYears
  /\ sentence_dates = <<>>
  /\ datePc = "sentence"

\* _find_dates_in_sentence: the dates of the events it returns
FindDatesInSentence ==
  /\ datePc = "sentence"
  /\ \E parsed \in DateparserParse(date_match), parsed_dates \in SearchDatesOutcomes :
       LET parsed_date == IF date_match.form = "none" THEN <<>>
                          ELSE ParseDate(date_match, parsed)
           second == IF /\ parsed_dates /= <<>>
                        /\ parsed_dates[1] \notin Range(parsed_date)
                        /\ IsReasonableDate(parsed_dates[1])
                       THEN parsed_dates ELSE <<>>
       IN sentence_dates' = parsed_date \o second
  /\ datePc' = "done"
  /\ UNCHANGED <<date_match, current_year>>

\* --------------------------------------------------- detectors/percentage.py
\* config.get('total_tolerance_pp', 1)
TotalTolerancePp == 1

\* detection.percentage_tolerance of the default configuration; no detector
\* reads it
PercentageTolerance == 2

\* the values the percentage pattern can find in a text (it matches no sign)
PercentValues == {25, 35, 38, 45, 60, 150}

\* what the request of _is_valid_over_100_percent ends with
ValidityReplies == {"VALID", "INVALID", "raised"}

\* what the request of _find_percentage_groups_with_llm gives for the values
\* found: an exception or a text that is no JSON list, or a list of groups
\* (fewer than 2 values: no request is made and the reply is not looked at)
GroupReplies(values) ==
  IF Len(values) < 2 THEN {[kind |-> "failed", groups |-> <<>>]}
  ELSE {[kind |-> "failed", groups |-> <<>>]}
         \cup {[kind |-> "groups", groups |-> g] :
                 g \in {<<>>, <<values>>, <<values, values>>, <<SubSeq(values, 1, 1)>>}}

\* _is_valid_over_100_percent
IsValidOver100Percent(reply) == reply = "VALID"

\* the issues of the loop over the single percentages of a text
RECURSIVE InvalidPercentageIssues(_, _, _)
InvalidPercentageIssues(slide_num, values, replies) ==
  IF values = <<>> THEN <<>>
  ELSE LET value == Head(values)
           rest == InvalidPercentageIssues(slide_num, Tail(values), Tail(replies))
       IN IF value < 0
            THEN <<Issue(<<slide_num>>, "invalid_percentage", "Negative percentage detected",
                         "Found " \o ToString(value) \o ".0% in slide text", 100)>> \o rest
          ELSE IF value > 100 /\ ~IsValidOver100Percent(Head(replies))
            THEN <<Issue(<<slide_num>>, "invalid_percentage", "Percentage exceeds 100%",
                         "Found " \o ToString(value)
                           \o ".0% in slide text - may need validation", 80)>> \o rest
          ELSE rest

\* _find_percentage_groups_with_llm
FindPercentageGroups(values, reply) ==
  IF Len(values) < 2 THEN <<>>
  ELSE IF reply.kind = "failed" THEN <<>>
  ELSE reply.groups

\* _check_percentage_group_sum
CheckPercentageGroupSum(slide_num, group) ==
  LET total == Sum(group) IN
  IF Len(group) < 2 THEN <<>>
  ELSE IF Abs(total - 100) > TotalTolerancePp
    THEN <<Issue(<<slide_num>>, "percentage_sum_error",
                 "Related percentages don't sum to 100%",
                 "Found " \o ToString(Len(group)) \o " related percentages in text summing to "
                   \o ToString(total) \o ".0% (expected: ~100%)", 70)>>
    ELSE <<>>

\* _check_text_percentages for the text of a slide
CheckTextPercentages(slide_num, values, replies, group_reply) ==
  LET groups == FindPercentageGroups(values, group_reply) IN
  IF values = <<>> THEN <<>>
  ELSE InvalidPercentageIssues(slide_num, values, replies)
         \o Flatten([g \in 1..Len(groups) |-> CheckPercentageGroupSum(slide_num, groups[g])])

\* the requests _check_text_percentages makes
TextPercentageRequests(values) ==
  SelectSeq([i \in 1..Len(values) |-> IF values[i] > 100 THEN "validate" ELSE "none"],
            LAMBDA r : r = "validate")
    \o (IF Len(values) >= 2 THEN <<"group">> ELSE <<>>)

IdlePct ==
  /\ pct_values = <<>>
  /\ pctRequests = <<>>
  /\ pctIssues = <<>>
  /\ pctPc = "idle"

InitPct ==
  /\ pct_values \in SeqsUpTo(PercentValues, MaxPercentages)
  /\ pctRequests = <<>>
  /\ pctIssues = <<>>
  /\ pctPc = "start"

\* _check_slide_percentages for slide 1, a slide without notes and tables
CheckSlidePercentages(replies, group_reply) ==
  /\ pctPc = "start"
  /\ pctIssues' = CheckTextPercentages(1, pct_values, replies, group_reply)
  /\ pctRequests' = TextPercentageRequests(pct_values)
  /\ pctPc' = "done"
  /\ UNCHANGED pct_values

\* ------------------------------------------------------ detectors/textual.py
\* Similarities are in ten-thousandths (0.75 is 7500), the confidences of the
\* oracle's verdicts in percent (0.7 is 70) and the confidence of an issue in
\* thousandths of a percent (0.91 is 91000).

\* config.get('similarity_threshold', 0.75)
SimilarityThreshold == 7500

\* config.get('confidence_threshold', 0.7)
ConfidenceThreshold == 70

\* cleaned sentences that are business claims, in the order of sorted()
ClaimTexts == <<"costs are higher", "costs are lower">>

\* the place of a text in the order of sorted()
TextRank(text) == CHOOSE k \in 1..Len(ClaimTexts) : ClaimTexts[k] = text

\* the vectors of the two texts, in the order of ClaimTexts
EmbeddingOf(vectors) == [t \in Range(ClaimTexts) |-> vectors[TextRank(t)]]

\* embeddings of the two texts, of integral magnitudes: of similarity 0.75,
\* 0.85 and 0.6; of two lengths; an empty vector and one of magnitude 0
EmbeddingMaps ==
  {EmbeddingOf(<<<<4, 0, 0, 0, 0>>, <<3, 2, 1, 1, 1>>>>),
   EmbeddingOf(<<<<3, 2, 1, 1, 1>>, <<3, 4, 0, 0, 0>>>>),
   EmbeddingOf(<<<<4, 0, 0, 0, 0>>, <<3, 4, 0, 0, 0>>>>),
   EmbeddingOf(<<<<3, 4>>, <<4, 0, 0, 0, 0>>>>),
   EmbeddingOf(<<<<>>, <<0, 0, 0, 0, 0>>>>)}

\* get_embeddings: GeminiClient has no such method, the call raises; a client
\* that has it gives one vector for each text
EmbeddingOutcomes ==
  {[kind |-> "raised", of |-> [t \in Range(ClaimTexts) |-> <<>>]]}
    \cup {[kind |-> "embeddings", of |-> e] : e \in EmbeddingMaps}

\* what the request of _analyze_contradiction_with_llm ends with: an
\* exception, a text json.loads or float() rejects, or a verdict
OracleReplies ==
  {[kind |-> k, contradiction |-> FALSE, confidence |-> 0] : k \in {"raised", "unparsable"}}
    \cup {[kind |-> "verdict", contradiction |-> c[1], confidence |-> c[2]] :
            c \in {<<TRUE, 60>>, <<TRUE, 70>>, <<TRUE, 150>>, <<FALSE, 90>>}}

\* sum(a * b for a, b in zip(vec1, vec2))
DotProduct(vec1, vec2) == Sum([k \in 1..Len(vec1) |-> vec1[k] * vec2[k]])

\* math.sqrt, on the squares of integers
Sqrt(n) == CHOOSE r \in 0..n : r * r <= n /\ (r + 1) * (r + 1) > n

\* _cosine_similarity
CosineSimilarity(vec1, vec2) ==
  IF vec1 = <<>> \/ vec2 = <<>> \/ Len(vec1) /= Len(vec2) THEN 0
  ELSE LET dot_product == DotProduct(vec1, vec2)
           magnitude1 == Sqrt(DotProduct(vec1, vec1))
           magnitude2 == Sqrt(DotProduct(vec2, vec2))
       IN IF magnitude1 = 0 \/ magnitude2 = 0 THEN 0
          ELSE (dot_product * 10000) \div (magnitude1 * magnitude2)

AboveThreshold(similarity) == similarity > SimilarityThreshold

\* similarity >= self.similarity_threshold
AtOrAboveThreshold(similarity) == similarity >= SimilarityThreshold

\* the pairs the two nested loops of _find_semantic_contradictions select
PairsToAnalyze(clms, embs) ==
  LET selected == SelectSeq(PairsInOrder(Len(clms)), LAMBDA pair :
                    /\ clms[pair[1]].slide_num /= clms[pair[2]].slide_num
                    /\ AtOrAboveThreshold(CosineSimilarity(embs[pair[1]], embs[pair[2]])))
  IN [k \in 1..Len(selected) |->
        LET i == selected[k][1]
            j == selected[k][2]
        IN [i |-> i, j |-> j, slide1 |-> clms[i].slide_num, slide2 |-> clms[j].slide_num,
            claim1 |-> clms[i].claim, claim2 |-> clms[j].claim,
            similarity |-> CosineSimilarity(embs[i], embs[j])]]

CreateCacheKeyUnsorted(claim1, claim2) == <<claim1, claim2>>

\* _create_cache_key: the two texts in sorted order (what the digest is taken
\* of; a cleaned sentence has no separator character and no outer blanks)
CreateCacheKey(claim1, claim2) ==
  IF TextRank(claim1) <= TextRank(claim2) THEN <<claim1, claim2>> ELSE <<claim2, claim1>>

\* the tuple _analyze_contradiction_with_llm returns for a reply
Verdict(reply) ==
  IF reply.kind = "verdict"
    THEN [contradiction |-> reply.contradiction, confidence |-> reply.confidence,
          reasoning |-> "reasoning"]
  ELSE IF reply.kind = "unparsable"
    THEN [contradiction |-> FALSE, confidence |-> 0, reasoning |-> "Failed to parse analysis"]
  ELSE [contradiction |-> FALSE, confidence |-> 0, reasoning |-> "Analysis failed"]

AdjustedConfidenceUncapped(confidence, embedding_similarity) ==
  confidence * 1000 + (embedding_similarity - SimilarityThreshold)

\* min(1.0, confidence + (embedding_similarity - self.similarity_threshold) * 0.1)
AdjustedConfidence(confidence, embedding_similarity) ==
  Min(100000, confidence * 1000 + (embedding_similarity - SimilarityThreshold))

\* the issue of a pair whose verdict is accepted
ContradictionIssue(pair, verdict) ==
  Issue(<<pair.slide1, pair.slide2>>, "textual_contradiction",
        "Contradictory business claims detected",
        "Slide " \o ToString(pair.slide1) \o ": " \o pair.claim1 \o " contradicts Slide "
          \o ToString(pair.slide2) \o ": " \o pair.claim2 \o " | Reasoning: "
          \o verdict.reasoning,
        AdjustedConfidence(verdict.confidence, pair.similarity))

IdleText ==
  /\ business_claims = <<>>
  /\ embeddings = <<>>
  /\ pairs_to_analyze = <<>>
  /\ pairIndex = 0
  /\ contradiction_cache = <<>>
  /\ oracleCalls = <<>>
  /\ analysed = <<>>
  /\ textIssues = <<>>
  /\ textPc = "idle"

InitText ==
  /\ business_claims = <<>>
  /\ embeddings = <<>>
  /\ pairs_to_analyze = <<>>
  /\ pairIndex = 0
  /\ contradiction_cache = <<>>
  /\ oracleCalls = <<>>
  /\ analysed = <<>>
  /\ textIssues = <<>>
  /\ textPc = "extract"

\* _extract_business_claims: one more claim, of the slide of the last claim
\* or of a later slide
ExtractClaim(slide_num, claim) ==
  /\ textPc = "extract"
  /\ Len(business_claims) < MaxClaims
  /\ business_claims /= <<>> => slide_num >= business_claims[Len(business_claims)].slide_num
  /\ business_claims' = Append(business_claims, [slide_num |-> slide_num, claim |-> claim])
  /\ UNCHANGED <<embeddings, pairs_to_analyze, pairIndex, contradiction_cache, oracleCalls,
                 analysed, textIssues, textPc>>

\* detect and _find_semantic_contradictions up to the loop over the pairs
\* selected
FindPairs(outcome) ==
  /\ textPc = "extract"
  /\ IF Len(business_claims) < 2
       THEN /\ textPc' = "returned"
            /\ UNCHANGED <<embeddings, pairs_to_analyze>>
     ELSE IF outcome.kind = "raised"
       THEN /\ textPc' = "raised"
            /\ UNCHANGED <<embeddings, pairs_to_analyze>>
     ELSE LET embs == [k \in 1..Len(business_claims) |-> outcome.of[business_claims[k].claim]] IN
          /\ embeddings' = embs
          /\ pairs_to_analyze' = PairsToAnalyze(business_claims, embs)
          /\ textPc' = "analyze"
  /\ UNCHANGED <<business_claims, pairIndex, contradiction_cache, oracleCalls, analysed, textIssues>>

\* one round of the loop over pairs_to_analyze, the call of
\* _analyze_contradiction_with_llm included
AnalyzePair(reply) ==
  /\ textPc = "analyze"
  /\ pairIndex < Len(pairs_to_analyze)
  /\ LET pair == pairs_to_analyze[pairIndex + 1]
         cache_key == CreateCacheKey(pair.claim1, pair.claim2)
         hit == cache_key \in DOMAIN contradiction_cache
         verdict == IF hit THEN contradiction_cache[cache_key] ELSE Verdict(reply)
     IN /\ contradiction_cache' =
             IF ~hit /\ reply.kind = "verdict"
               THEN [k \in DOMAIN contradiction_cache \cup {cache_key} |->
                       IF k = cache_key THEN verdict ELSE contradiction_cache[k]]
               ELSE contradiction_cache
        /\ oracleCalls' =
             IF hit THEN oracleCalls
             ELSE Append(oracleCalls, [claim1 |-> pair.claim1, claim2 |-> pair.claim2,
                                       slide1 |-> pair.slide1, slide2 |-> pair.slide2])
        /\ analysed' = Append(analysed,
             [i |-> pair.i, j |-> pair.j,
              from |-> IF hit THEN "cache" ELSE IF reply.kind = "verdict" THEN "verdict"
                       ELSE "failed",
              contradiction |-> verdict.contradiction, confidence |-> verdict.confidence])
        /\ textIssues' =
             IF verdict.contradiction /\ verdict.confidence >= ConfidenceThreshold
               THEN Append(textIssues, ContradictionIssue(pair, verdict))
               ELSE textIssues
  /\ pairIndex' = pairIndex + 1
  /\ UNCHANGED <<business_claims, embeddings, pairs_to_analyze, textPc>>

\* return issues
ReturnIssues ==
  /\ textPc = "analyze"
  /\ pairIndex = Len(pairs_to_analyze)
  /\ textPc' = "returned"
  /\ UNCHANGED <<business_claims, embeddings, pairs_to_analyze, pairIndex, contradiction_cache,
                 oracleCalls, analysed, textIssues>>

\* ------------------------------------------------------------------ main.py
\* what validate_inputs, GeminiClient(...) and extract_presentation_content
\* can end with before the detection starts
Setups == {"ok", "FileNotFoundError", "ValueError", "extraction failed"}

InitMain ==
  /\ deck \in {NumberedDeck(texts) : texts \in DeckTexts}
  /\ slide_data = <<>>
  /\ hubIndex = 0
  /\ hubIssues = <<>>
  /\ hubResult = [kind |-> "none"]
  /\ hubEvents = <<>>
  /\ hubPc = "idle"
  /\ mainPc = "start"
  /\ mainLog = <<>>
  /\ exit_status = "running"

IdleMain ==
  /\ mainPc = "idle"
  /\ mainLog = <<>>
  /\ exit_status = "running"

\* main up to the call of detect_all_inconsistencies
Setup(outcome) ==
  /\ mainPc = "start"
  /\ IF outcome /= "ok"
       THEN /\ mainLog' = Append(mainLog, "ERROR Analysis failed")
            /\ exit_status' = 1
            /\ mainPc' = "exited"
            /\ UNCHANGED hubPc
       ELSE IF deck = <<>>
         THEN /\ mainLog' = Append(mainLog, "ERROR No slides found or extracted")
              /\ exit_status' = 0
              /\ mainPc' = "exited"
              /\ UNCHANGED hubPc
         ELSE /\ mainLog' = mainLog
              /\ hubPc' = "analyze"
              /\ mainPc' = "detect"
              /\ UNCHANGED exit_status
  /\ UNCHANGED <<deck, slide_data, hubIndex, hubIssues, hubResult, hubEvents>>

\* main after detect_all_inconsistencies: the report and the summary, or the
\* handler of the exception that came out of it
Report ==
  /\ mainPc = "detect"
  /\ hubPc = "done"
  /\ IF hubResult.kind = "raised"
       THEN /\ mainLog' = Append(mainLog, "ERROR Analysis failed")
            /\ exit_status' = 1
       ELSE /\ mainLog' = mainLog \o
                 IF Len(hubIssues) > 0
                   THEN <<"OUTPUT Total Issues Found: " \o ToString(Len(hubIssues)),
                          "INFO Analysis complete. Found " \o ToString(Len(hubIssues))
                            \o " inconsistencies.">>
                   ELSE <<"OUTPUT No inconsistencies detected",
                          "INFO Analysis complete. No inconsistencies detected!">>
            /\ exit_status' = 0
  /\ mainPc' = "exited"
  /\ UNCHANGED hubVars

\* ------------------------------------------------------------ specifications
NextIssue == BuildSet /\ UNCHANGED <<genVars, numVars, hubVars, mainVars, parseVars, timelineVars, pctVars, textVars, normVars, groupVars, dateVars, relatedVars>>

StartIssue == InitIssue /\ IdleGen /\ IdleNum /\ IdleHub /\ IdleMain /\ IdleParse /\ IdleTimeline /\ IdlePct /\ IdleText /\ IdleNorm /\ IdleGroup /\ IdleDates /\ IdleRelated

SpecIssue == StartIssue /\ [][NextIssue]_vars

NextGen ==
  \/ (\E o \in CallOutcomes : Attempt(o)) /\ UNCHANGED <<issueVars, numVars, hubVars, mainVars, parseVars, timelineVars, pctVars, textVars, normVars, groupVars, dateVars, relatedVars>>
  \/ LoopExit /\ UNCHANGED <<issueVars, numVars, hubVars, mainVars, parseVars, timelineVars, pctVars, textVars, normVars, groupVars, dateVars, relatedVars>>

StartGen == InitGen /\ IdleIssue /\ IdleNum /\ IdleHub /\ IdleMain /\ IdleParse /\ IdleTimeline /\ IdlePct /\ IdleText /\ IdleNorm /\ IdleGroup /\ IdleDates /\ IdleRelated

SpecGen == StartGen /\ [][NextGen]_vars

NextTolerance == CheckTolerance /\ UNCHANGED <<issueVars, genVars, hubVars, mainVars, parseVars, timelineVars, pctVars, textVars, normVars, groupVars, dateVars, relatedVars>>

StartTolerance == InitTolerance /\ IdleIssue /\ IdleGen /\ IdleHub /\ IdleMain /\ IdleParse /\ IdleTimeline /\ IdlePct /\ IdleText /\ IdleNorm /\ IdleGroup /\ IdleDates /\ IdleRelated

SpecTolerance == StartTolerance /\ [][NextTolerance]_vars

NextNumerical ==
  \/ (\E key \in MetricKeys, value \in MetricValues, slide_num \in 1..MaxSlideNum,
         unit \in MetricUnits : RegisterMetric(key, value, slide_num, unit))
       /\ UNCHANGED <<issueVars, genVars, hubVars, mainVars, parseVars, timelineVars, pctVars, textVars, normVars, groupVars, dateVars, relatedVars>>
  \/ FindConflicts /\ UNCHANGED <<issueVars, genVars, hubVars, mainVars, parseVars, timelineVars, pctVars, textVars, normVars, groupVars, dateVars, relatedVars>>

StartNumerical == InitNumerical /\ IdleIssue /\ IdleGen /\ IdleHub /\ IdleMain /\ IdleParse /\ IdleTimeline /\ IdlePct /\ IdleText /\ IdleNorm /\ IdleGroup /\ IdleDates /\ IdleRelated

SpecNumerical == StartNumerical /\ [][NextNumerical]_vars

NextParse ==
  ParseResponse /\ UNCHANGED <<issueVars, genVars, numVars, hubVars, mainVars, timelineVars, pctVars, textVars, normVars, groupVars, dateVars, relatedVars>>

StartParse == InitParse /\ IdleIssue /\ IdleGen /\ IdleNum /\ IdleHub /\ IdleMain /\ IdleTimeline /\ IdlePct /\ IdleText /\ IdleNorm /\ IdleGroup /\ IdleDates /\ IdleRelated

SpecParse == StartParse /\ [][NextParse]_vars

NextTimeline ==
  \/ (\E event \in TimelineEvents : ExtractEvent(event))
       /\ UNCHANGED <<issueVars, genVars, numVars, hubVars, mainVars, parseVars, pctVars, textVars, normVars, groupVars, dateVars, relatedVars>>
  \/ TimelineDetect /\ UNCHANGED <<issueVars, genVars, numVars, hubVars, mainVars, parseVars, pctVars, textVars, normVars, groupVars, dateVars, relatedVars>>

StartTimeline == InitTimeline /\ IdleIssue /\ IdleGen /\ IdleNum /\ IdleHub /\ IdleMain /\ IdleParse /\ IdlePct /\ IdleText /\ IdleNorm /\ IdleGroup /\ IdleDates /\ IdleRelated

SpecTimeline == StartTimeline /\ [][NextTimeline]_vars

NextPct ==
  (\E replies \in [1..Len(pct_values) -> ValidityReplies],
      group_reply \in GroupReplies(pct_values) : CheckSlidePercentages(replies, group_reply))
    /\ UNCHANGED <<issueVars, genVars, numVars, hubVars, mainVars, parseVars, timelineVars, textVars, normVars, groupVars, dateVars, relatedVars>>

StartPct == InitPct /\ IdleIssue /\ IdleGen /\ IdleNum /\ IdleHub /\ IdleMain /\ IdleParse /\ IdleTimeline /\ IdleText /\ IdleNorm /\ IdleGroup /\ IdleDates /\ IdleRelated

SpecPct == StartPct /\ [][NextPct]_vars

NextText ==
  \/ (\E slide_num \in 1..MaxClaims, claim \in Range(ClaimTexts) : ExtractClaim(slide_num, claim))
       /\ UNCHANGED <<issueVars, genVars, numVars, hubVars, mainVars, parseVars, timelineVars, pctVars, normVars, groupVars, dateVars, relatedVars>>
  \/ (\E outcome \in EmbeddingOutcomes : FindPairs(outcome))
       /\ UNCHANGED <<issueVars, genVars, numVars, hubVars, mainVars, parseVars, timelineVars, pctVars, normVars, groupVars, dateVars, relatedVars>>
  \/ (\E reply \in OracleReplies : AnalyzePair(reply))
       /\ UNCHANGED <<issueVars, genVars, numVars, hubVars, mainVars, parseVars, timelineVars, pctVars, normVars, groupVars, dateVars, relatedVars>>
  \/ ReturnIssues
       /\ UNCHANGED <<issueVars, genVars, numVars, hubVars, mainVars, parseVars, timelineVars, pctVars, normVars, groupVars, dateVars, relatedVars>>

StartText == InitText /\ IdleIssue /\ IdleGen /\ IdleNum /\ IdleHub /\ IdleMain /\ IdleParse /\ IdleTimeline /\ IdlePct /\ IdleNorm /\ IdleGroup /\ IdleDates /\ IdleRelated

SpecText == StartText /\ [][NextText]_vars

NextNorm ==
  Normalize /\ UNCHANGED <<issueVars, genVars, numVars, hubVars, mainVars, parseVars, timelineVars, pctVars, textVars, groupVars, dateVars, relatedVars>>

StartNorm == InitNorm /\ IdleIssue /\ IdleGen /\ IdleNum /\ IdleHub /\ IdleMain /\ IdleParse /\ IdleTimeline /\ IdlePct /\ IdleText /\ IdleGroup /\ IdleDates /\ IdleRelated

SpecNorm == StartNorm /\ [][NextNorm]_vars

NextGroup ==
  GroupOccurrences /\ UNCHANGED <<issueVars, genVars, numVars, hubVars, mainVars, parseVars, timelineVars, pctVars, textVars, normVars, dateVars, relatedVars>>

StartGroup == InitGroup /\ IdleIssue /\ IdleGen /\ IdleNum /\ IdleHub /\ IdleMain /\ IdleParse /\ IdleTimeline /\ IdlePct /\ IdleText /\ IdleNorm /\ IdleDates /\ IdleRelated

SpecGroup == StartGroup /\ [][NextGroup]_vars

NextDates ==
  FindDatesInSentence /\ UNCHANGED <<issueVars, genVars, numVars, hubVars, mainVars, parseVars, timelineVars, pctVars, textVars, normVars, groupVars, relatedVars>>

StartDates == InitDates /\ IdleIssue /\ IdleGen /\ IdleNum /\ IdleHub /\ IdleMain /\ IdleParse /\ IdleTimeline /\ IdlePct /\ IdleText /\ IdleNorm /\ IdleGroup /\ IdleRelated

SpecDates == StartDates /\ [][NextDates]_vars

NextRelated ==
  SeemRelated /\ UNCHANGED <<issueVars, genVars, numVars, hubVars, mainVars, parseVars, timelineVars, pctVars, textVars, normVars, groupVars, dateVars>>

StartRelated == InitRelated /\ IdleIssue /\ IdleGen /\ IdleNum /\ IdleHub /\ IdleMain /\ IdleParse /\ IdleTimeline /\ IdlePct /\ IdleText /\ IdleNorm /\ IdleGroup /\ IdleDates

SpecRelated == StartRelated /\ [][NextRelated]_vars

\* one run of main
Next ==
  \/ (\E outcome \in Setups : Setup(outcome)) /\ UNCHANGED <<issueVars, genVars, numVars, parseVars, timelineVars, pctVars, textVars, normVars, groupVars, dateVars, relatedVars>>
  \/ (\E reply \in SlideReplies : AnalyzeSlide(reply))
       /\ UNCHANGED <<issueVars, genVars, numVars, mainVars, parseVars, timelineVars, pctVars, textVars, normVars, groupVars, dateVars, relatedVars>>
  \/ (\E metric_reply \in ConflictReplies, claim_reply \in ConflictReplies :
         FindCrossSlideConflicts(metric_reply, claim_reply))
       /\ UNCHANGED <<issueVars, genVars, numVars, mainVars, parseVars, timelineVars, pctVars, textVars, normVars, groupVars, dateVars, relatedVars>>
  \/ CountAndReturn /\ UNCHANGED <<issueVars, genVars, numVars, mainVars, parseVars, timelineVars, pctVars, textVars, normVars, groupVars, dateVars, relatedVars>>
  \/ Report /\ UNCHANGED <<issueVars, genVars, numVars, parseVars, timelineVars, pctVars, textVars, normVars, groupVars, dateVars, relatedVars>>

Init == InitMain /\ IdleIssue /\ IdleGen /\ IdleNum /\ IdleParse /\ IdleTimeline /\ IdlePct /\ IdleText /\ IdleNorm /\ IdleGroup /\ IdleDates /\ IdleRelated

Spec == Init /\ [][Next]_vars

\* ------------------------------------------------------------------ claims

\* the number of times n occurs in the list s
Count(s, n) == Cardinality({i \in 1..Len(s) : s[i] = n})

\* the two slide lists hold the same slide numbers the same number of times,
\* which is what equal sorted lists are
SameSlides(a, b) == \A n \in Range(a.slides) \cup Range(b.slides) :
                      Count(a.slides, n) = Count(b.slides, n)

SameIdentity(a, b) ==
  /\ SameSlides(a, b)
  /\ a.issue_type = b.issue_type
  /\ a.description = b.description
  /\ a.details = b.details

\* C1: two Issues are equal, and hash alike, exactly when their slides (in any
\* order), issue_type, description and details agree; confidence plays no
\* part, and a set built from two Issues that agree so holds one entry.
C1_IssueEqualityIgnoresConfidence ==
  /\ IssueEq(issueA, issueB) <=> SameIdentity(issueA, issueB)
  /\ (IssueHash(issueA) = IssueHash(issueB)) <=> SameIdentity(issueA, issueB)
  /\ issuePc = "built" =>
       Cardinality(issueSet) = IF SameIdentity(issueA, issueB) THEN 1 ELSE 2

C1_Witness ==
  /\ issuePc = "built"
  /\ issueA.confidence /= issueB.confidence
  /\ issueA.slides /= issueB.slides
  /\ Len(issueA.slides) = 2
  /\ SameIdentity(issueA, issueB)
  /\ Cardinality(issueSet) = 1

\* C3: _values_within_tolerance is true of two zeros, false when exactly one
\* value is zero, and otherwise true exactly when the difference relative to
\* the larger magnitude, in percent, is at most tolerance_pct; swapping the
\* arguments does not change the result.
C3_ToleranceTest ==
  numPc = "checked" =>
    /\ (val1 = 0 /\ val2 = 0) => tolResult = TRUE
    /\ ((val1 = 0) /= (val2 = 0)) => tolResult = FALSE
    /\ (val1 /= 0 /\ val2 /= 0) =>
         (tolResult <=> Abs(val1 - val2) * 100 <= tolerance_pct * Max(Abs(val1), Abs(val2)))
    /\ tolResult = ValuesWithinTolerance(val2, val1)

C3_Witness ==
  /\ numPc = "checked"
  /\ val1 /= 0 /\ val2 /= 0 /\ Abs(val1) < Abs(val2)
  /\ Abs(val1 - val2) * 100 = tolerance_pct * Abs(val2)
  /\ tolResult = TRUE

\* the occurrences of one key whose unit normalizes to one unit, in order
Subgroup(key, unit) ==
  LET all == Flatten([i \in 1..Len(registry) |->
                        IF registry[i].key = key THEN registry[i].occs ELSE <<>>])
  IN SelectSeq(all, LAMBDA occ : occ.unit \in
       (IF unit = "usd_m" THEN {"USD_millions", "usd_m"} ELSE {"minutes"}))

\* the issues reported for one key in one unit (the unit shows in the way
\* the values of the details are written)
IssuesOf(key, unit) ==
  {i \in 1..Len(numIssues) :
     /\ numIssues[i].description = ConflictDescription(key)
     /\ numIssues[i].details[1].value.style =
          (IF unit = "usd_m" THEN "$M" ELSE "minutes")}

\* C4: for every key and every unit (synonyms of a unit taken together) there
\* is exactly one numerical_conflict Issue when the values of that subgroup
\* fall into more than one tolerance cluster and none otherwise; the Issue
\* names exactly the slides of the subgroup's occurrences and has confidence
\* at least 0.9.
C4_OneConflictPerKeyAndUnit ==
  numPc = "done" =>
    \A key \in MetricKeys, unit \in {"usd_m", "min"} :
      LET sub == Subgroup(key, unit)
          mine == IssuesOf(key, unit)
      IN /\ Cardinality(mine) = IF Len(GroupByTolerance(sub)) > 1 THEN 1 ELSE 0
         /\ \A i \in mine :
              /\ numIssues[i].issue_type = "numerical_conflict"
              /\ Range(numIssues[i].slides) = {sub[j].slide_num : j \in 1..Len(sub)}
              /\ Len(numIssues[i].slides) = Cardinality(Range(numIssues[i].slides))
              /\ numIssues[i].confidence >= 90

\* 2,000,000 on slide 1 and 3,000,000 on slide 2, one key, synonymous units
C4_Witness ==
  /\ numPc = "done"
  /\ registry = <<[key |-> "annual_savings", occs |->
         <<[value |-> 2000000, slide_num |-> 1, unit |-> "USD_millions"],
           [value |-> 3000000, slide_num |-> 2, unit |-> "usd_m"]>>]>>
  /\ Len(numIssues) = 1
  /\ numIssues[1].issue_type = "numerical_conflict"
  /\ numIssues[1].slides = <<1, 2>>

IsCall(ev) == ev.kind = "call"
IsSleep(ev) == ev.kind = "sleep"
Failed(ev) == IsCall(ev) /\ ev.outcome.kind = "exception"
Calls == SelectSeq(events, IsCall)
Sleeps == SelectSeq(events, IsSleep)

\* C5: a model call that fails with an authentication, permission or billing
\* error ends the request at once: the error is raised to the caller, and no
\* wait and no further call follows it.
C5_ConfigErrorIsFatalAtOnce ==
  \A i \in 1..Len(events) :
    (Failed(events[i]) /\ events[i].outcome.error.config) =>
      /\ i = Len(events)
      /\ genPc = "done" => genResult.kind = "raised"

\* C6: a request makes at most max_retries model calls; when every call met a
\* rate limit it ends raising after exactly max_retries calls; and it returns
\* only after a call gave a non-empty response text.
C6_AtMostMaxRetriesCalls ==
  /\ Len(Calls) <= max_retries
  /\ (genPc = "done" /\ \A i \in 1..Len(Calls) :
          Failed(Calls[i]) /\ Calls[i].outcome.error.quota) =>
       (genResult.kind = "raised" /\ Len(Calls) = max_retries)
  /\ genResult.kind = "returned" =>
       (Len(events) > 0 /\ events[Len(events)].outcome.kind = "response"
          /\ events[Len(events)].outcome.text /= "")

C6_Witness ==
  /\ genPc = "done"
  /\ max_retries >= 2
  /\ Len(Calls) = max_retries
  /\ \A i \in 1..Len(Calls) : Failed(Calls[i]) /\ Calls[i].outcome.error.quota
  /\ genResult.kind = "raised"

\* the waits that follow a call that met a rate limit
RateLimitWaits ==
  LET idx == {i \in 2..Len(events) :
                /\ IsSleep(events[i])
                /\ Failed(events[i - 1]) /\ events[i - 1].outcome.error.quota}
  IN [k \in 1..Cardinality(idx) |->
        events[CHOOSE i \in idx : Cardinality({j \in idx : j <= i}) = k].secs]

C2_NoDuplicateFindings ==
  hubResult.kind = "returned" =>
    \A i, j \in 1..Len(hubIssues) :
      i /= j => ~IssueEq(hubIssues[i], hubIssues[j])

IsRequest(ev) == ev.kind = "request"
ReplyFailed(reply) == reply.kind = "raised" \/ reply.parse /= "ok"
SlideRequests(n) ==
  {k \in 1..Len(hubEvents) :
     IsRequest(hubEvents[k]) /\ hubEvents[k].what = "slide" /\ hubEvents[k].slide = n}

\* C8: in _analyze_all_slides a slide whose request failed, or whose response
\* could not be parsed, gets the empty analysis of its slide number; every
\* slide handled so far has its entry, every slide with text had its one
\* request whatever happened to the slides before it, and the loop ends only
\* with an entry for every slide of the deck (the map is compared as
\* _analyze_all_slides leaves it, before the cross-slide step stamps it).
C8_FailedSlideLeavesSiblings ==
  /\ DOMAIN slide_data = {deck[i].slide_num : i \in 1..hubIndex}
  /\ hubPc \in {"count", "done"} => hubIndex = Len(deck)
  /\ \A i \in 1..hubIndex :
       /\ Cardinality(SlideRequests(i)) = IF deck[i].text = "" THEN 0 ELSE 1
       /\ hubPc = "analyze" =>
            \A k \in SlideRequests(i) :
              IF ReplyFailed(hubEvents[k].reply)
                THEN slide_data[i] = EmptyAnalysis(i)
                ELSE slide_data[i] = hubEvents[k].reply.value

C8_Witness ==
  /\ hubPc = "analyze"
  /\ hubIndex = 2 /\ Len(deck) = 2
  /\ \E k \in SlideRequests(1) : hubEvents[k].reply = Raise
  /\ slide_data[1] = EmptyAnalysis(1)
  /\ \E k \in SlideRequests(2) : ~ReplyFailed(hubEvents[k].reply)
  /\ slide_data[2] /= EmptyAnalysis(2)

\* C9: whatever the oracle answers, detect_all_inconsistencies does not
\* raise: an exception met while metrics, claims or percentages are evaluated
\* stays inside that evaluator.
C9_DetectNeverRaises ==
  hubPc = "done" => hubResult.kind = "returned"

\* at least one request was made and every request failed
EveryRequestFailed ==
  /\ \E k \in 1..Len(hubEvents) : IsRequest(hubEvents[k])
  /\ \A k \in 1..Len(hubEvents) :
       IsRequest(hubEvents[k]) => ReplyFailed(hubEvents[k].reply)

\* C10: a run of main ends either with a fatal error message and a nonzero
\* exit status, or with exit status 0 after reporting its findings; a run
\* with no slide, or one in which every oracle request failed, does not end
\* with exit status 0.
C10_FailureIsNeverSuccess ==
  mainPc = "exited" =>
    \/ /\ exit_status /= 0
       /\ mainLog[Len(mainLog)] = "ERROR Analysis failed"
    \/ /\ exit_status = 0
       /\ deck /= <<>>
       /\ ~EveryRequestFailed

\* the positions of the requests of one kind among the hub's events
RequestsFor(what) ==
  {k \in 1..Len(hubEvents) : IsRequest(hubEvents[k]) /\ hubEvents[k].what = what}

HubSleeps == {k \in 1..Len(hubEvents) : IsSleep(hubEvents[k])}

\* C11: while _analyze_all_slides runs, a sleep of request_delay (8) lies
\* between the request of any slide and the request of a later slide, every
\* slide but the last is followed by one sleep, and nothing is slept after
\* the last slide.
C11_DelayBetweenSlides ==
  hubPc = "analyze" =>
    /\ \A k \in HubSleeps : hubEvents[k].secs = RequestDelay
    /\ \A k, l \in RequestsFor("slide") :
         k < l => \E j \in HubSleeps : k < j /\ j < l
    /\ Cardinality(HubSleeps) =
         IF hubIndex < Len(deck) THEN hubIndex ELSE Len(deck) - 1
    /\ (hubIndex = Len(deck) /\ deck[Len(deck)].text /= "") =>
         IsRequest(hubEvents[Len(hubEvents)])

C11_Witness ==
  /\ hubPc = "analyze"
  /\ Len(deck) = 2 /\ hubIndex = 2
  /\ Len(hubEvents) = 3
  /\ IsRequest(hubEvents[1]) /\ hubEvents[1].slide = 1
  /\ hubEvents[2] = Sleep(8)
  /\ IsRequest(hubEvents[3]) /\ hubEvents[3].slide = 2

\* C12: a run of detect_all_inconsistencies on N slides makes at most N + 2
\* generate_text requests: one for each slide with text and none for a slide
\* without, at most one for metric conflicts and only when at least 2 metrics
\* were collected, at most one for claim conflicts and only when at least 2
\* claims were collected; every request is of one of these kinds.
C12_AtMostNPlusTwoRequests ==
  /\ Cardinality({k \in 1..Len(hubEvents) : IsRequest(hubEvents[k])}) <= Len(deck) + 2
  /\ \A k \in 1..Len(hubEvents) :
       IsRequest(hubEvents[k]) => hubEvents[k].what \in {"slide", "metrics", "claims"}
  /\ \A i \in 1..Len(deck) :
       Cardinality(SlideRequests(i)) <= IF deck[i].text = "" THEN 0 ELSE 1
  /\ Cardinality(RequestsFor("metrics")) <= 1
  /\ Cardinality(RequestsFor("claims")) <= 1
  /\ RequestsFor("metrics") /= {} =>
       Len(Combine(slide_data, "business_metrics").items) >= 2
  /\ RequestsFor("claims") /= {} =>
       Len(Combine(slide_data, "business_claims").items) >= 2

C12_Witness ==
  /\ hubPc = "done"
  /\ hubResult.kind = "returned"
  /\ Len(deck) = 2
  /\ Cardinality({k \in 1..Len(hubEvents) : IsRequest(hubEvents[k])}) = 4

\* the end of the first balanced bracket span that starts at start, 0 when
\* the brackets opened there are never closed
RECURSIVE BalancedEnd(_, _, _)
BalancedEnd(text, i, depth) ==
  IF i > Len(text) THEN 0
  ELSE LET d == IF text[i] \in {"{", "["} THEN depth + 1
                ELSE IF text[i] \in {"}", "]"} THEN depth - 1 ELSE depth
       IN IF d = 0 THEN i ELSE BalancedEnd(text, i + 1, d)

\* the first balanced {...} or [...] span of a text, empty when there is none
FirstBalancedSpan(text) ==
  LET opens == {i \in 1..Len(text) : text[i] \in {"{", "["}}
      start == IF opens = {} THEN 0 ELSE CHOOSE i \in opens : \A j \in opens : i <= j
      end == IF start = 0 THEN 0 ELSE BalancedEnd(text, start, 0)
  IN IF end = 0 THEN <<>> ELSE SubSeq(text, start, end)

\* C13: _clean_and_parse_json strips the fences and parses the first balanced
\* span of the response: when that span is valid JSON the result is its
\* value, whatever follows it; when there is no such span or it is not valid
\* the parse fails and the caller returns the empty analysis.
C13_ParsesFirstBalancedSpan ==
  parsePc = "parsed" =>
    LET span == FirstBalancedSpan(CleanedText(response_text))
        loaded == JsonLoads(span)
    IN IF span /= <<>> /\ loaded.ok
         THEN parseReply = Parsed(loaded.value) /\ parseAnalysis = loaded.value
         ELSE parseReply = Unparsable /\ parseAnalysis = EmptyAnalysis(1)

\* C14: every Issue that detect_all_inconsistencies returns has a confidence
\* between 0 and 1 (0 and 100 in percent), whatever the confidences of the
\* oracle's conflict records.
C14_ConfidenceInUnitInterval ==
  hubResult.kind = "returned" =>
    \A i \in 1..Len(hubIssues) :
      hubIssues[i].confidence >= 0 /\ hubIssues[i].confidence <= 100

\* C15: with a future event dated 2025-01-01 on slide 1 and a related past
\* event dated 2024-06-01 on slide 2, the timeline detector reports a
\* chronological_mismatch for slides 1 and 2.
C15_FutureAfterPastIsMismatch ==
  (/\ timelinePc = "done"
   /\ \E a, b \in Range(timeline_events) :
        /\ a.slide_num = 1 /\ a.event_type = "future" /\ a.date = 20250101
        /\ b.slide_num = 2 /\ b.event_type = "past" /\ b.date = 20240601
        /\ EventsSeemRelated(a, b))
  => \E i \in 1..Len(timelineIssues) :
       /\ timelineIssues[i].issue_type = "chronological_mismatch"
       /\ Range(timelineIssues[i].slides) = {1, 2}

\* the numeric percentage values the analysis of slide n holds, in order
SlidePercentages(n) ==
  IF n \in DOMAIN slide_data /\ IsDict(slide_data[n])
       /\ Get(slide_data[n], "percentages", JList(<<>>)).t = "list"
    THEN LET items == SelectSeq(Get(slide_data[n], "percentages", JList(<<>>)).items,
                        LAMBDA pct : IsDict(pct) /\ Get(pct, "value", JNull).t = "num")
         IN [i \in 1..Len(items) |-> items[i].fields.value.n]
    ELSE <<>>

\* the returned issues of one type that name exactly slide n
IssuesOfTypeOn(type, n) ==
  {i \in 1..Len(hubIssues) :
     hubIssues[i].issue_type = type /\ hubIssues[i].slides = <<n>>}

\* C16: a percentage over 100 that is the only percentage of its slide gives
\* a finding of type invalid_percentage or potential_percentage_error for
\* that slide with confidence below 1.0, and no percentage_sum_error.
C16_LonePercentageOver100IsFlagged ==
  hubResult.kind = "returned" =>
    \A n \in DOMAIN slide_data :
      (Len(SlidePercentages(n)) = 1 /\ SlidePercentages(n)[1] > 100) =>
        /\ \E i \in IssuesOfTypeOn("invalid_percentage", n)
                   \cup IssuesOfTypeOn("potential_percentage_error", n) :
             hubIssues[i].confidence < 100
        /\ IssuesOfTypeOn("percentage_sum_error", n) = {}

\* C17: for a slide with at least 2 percentages there is exactly one
\* percentage_sum_error finding for the slide when their sum is between 80
\* and 120 and differs from 100 by more than the configured tolerance of 2
\* points, and none otherwise (none for a sum of 98 or 102, none for a sum
\* outside the band).
C17_SumErrorWithinBand ==
  (pctPc = "done" /\ Len(pct_values) >= 2) =>
    LET total == Sum(pct_values)
        found == {i \in 1..Len(pctIssues) :
                    /\ pctIssues[i].issue_type = "percentage_sum_error"
                    /\ pctIssues[i].slides = <<1>>}
    IN Cardinality(found) =
         IF total >= 80 /\ total <= 120 /\ Abs(total - 100) > PercentageTolerance
           THEN 1 ELSE 0

\* C17 on the percentage check the hub runs: as above, for the percentages of
\* one slide in the analysis of the slide.
C17_HubSumErrorWithinBand ==
  hubResult.kind = "returned" =>
    \A n \in DOMAIN slide_data :
      Len(SlidePercentages(n)) >= 2 =>
        LET total == Sum(SlidePercentages(n)) IN
        Cardinality(IssuesOfTypeOn("percentage_sum_error", n)) =
          IF total >= 80 /\ total <= 120 /\ Abs(total - 100) > PercentageTolerance
            THEN 1 ELSE 0

\* the pair of claims (i, j) is of two slides and its similarity reaches the
\* threshold
SimilarCrossSlide(i, j) ==
  /\ business_claims[i].slide_num /= business_claims[j].slide_num
  /\ CosineSimilarity(embeddings[i], embeddings[j]) >= SimilarityThreshold

\* C18: the oracle is asked about a pair of claims only if the two claims are
\* of different slides and the cosine similarity of their embeddings is at or
\* above similarity_threshold (0.75): no pair of one slide and no pair below
\* the threshold is analysed or reaches the oracle, and when detect has
\* returned every pair of different slides at or above the threshold has been
\* analysed.
C18_OracleOnlyForSimilarCrossSlidePairs ==
  /\ \A a \in 1..Len(analysed) : SimilarCrossSlide(analysed[a].i, analysed[a].j)
  /\ \A c \in 1..Len(oracleCalls) :
       \E a \in 1..Len(analysed) :
         /\ analysed[a].from /= "cache"
         /\ oracleCalls[c].claim1 = business_claims[analysed[a].i].claim
         /\ oracleCalls[c].claim2 = business_claims[analysed[a].j].claim
         /\ oracleCalls[c].slide1 = business_claims[analysed[a].i].slide_num
         /\ oracleCalls[c].slide2 = business_claims[analysed[a].j].slide_num
  /\ (textPc = "returned" /\ Len(business_claims) >= 2) =>
       \A i, j \in 1..Len(business_claims) :
         (i < j /\ SimilarCrossSlide(i, j)) =>
           \E a \in 1..Len(analysed) : analysed[a].i = i /\ analysed[a].j = j

\* detect has returned after it analysed a pair whose similarity is exactly
\* the threshold and asked the oracle, with a similar pair of one slide left
\* out
C18_Witness ==
  /\ textPc = "returned"
  /\ oracleCalls /= <<>>
  /\ \E a \in 1..Len(analysed) :
       CosineSimilarity(embeddings[analysed[a].i], embeddings[analysed[a].j])
         = SimilarityThreshold
  /\ \E i, j \in 1..Len(business_claims) :
       /\ i < j
       /\ business_claims[i].slide_num = business_claims[j].slide_num
       /\ CosineSimilarity(embeddings[i], embeddings[j]) >= SimilarityThreshold

\* the analyses whose verdict has the contradiction flag and a confidence at
\* or above confidence_threshold
AcceptedAnalyses ==
  SelectSeq(analysed, LAMBDA a : a.contradiction /\ a.confidence >= ConfidenceThreshold)

\* the issue of the k-th accepted analysis is a textual_contradiction of the
\* two slides whose confidence is min(1.0, verdict confidence + 0.1 *
\* (similarity - similarity_threshold))
IssueOfAccepted(k) ==
  LET a == AcceptedAnalyses[k]
      raw == a.confidence * 1000
               + (CosineSimilarity(embeddings[a.i], embeddings[a.j]) - SimilarityThreshold)
  IN /\ textIssues[k].issue_type = "textual_contradiction"
     /\ textIssues[k].slides = <<business_claims[a.i].slide_num, business_claims[a.j].slide_num>>
     /\ textIssues[k].confidence = IF raw > 100000 THEN 100000 ELSE raw
     /\ textIssues[k].confidence <= 100000

\* C19 as stated: an issue is emitted for an analysed pair if and only if the
\* verdict has the contradiction flag and a confidence at or above
\* confidence_threshold (0.7); its confidence is min(1.0, verdict confidence
\* + 0.1 * (similarity - similarity_threshold)), never below the verdict
\* confidence and never above 1.0.
C19_IssueIffAcceptedNeverBelowVerdict ==
  /\ Len(textIssues) = Len(AcceptedAnalyses)
  /\ \A k \in 1..Len(AcceptedAnalyses) :
       /\ IssueOfAccepted(k)
       /\ textIssues[k].confidence >= AcceptedAnalyses[k].confidence * 1000

\* C19 amended: as stated, but the confidence of the issue is not below the
\* verdict confidence only when the verdict confidence is at most 1.0.
C19_IssueIffAccepted ==
  /\ Len(textIssues) = Len(AcceptedAnalyses)
  /\ \A k \in 1..Len(AcceptedAnalyses) :
       /\ IssueOfAccepted(k)
       /\ AcceptedAnalyses[k].confidence <= 100 =>
            textIssues[k].confidence >= AcceptedAnalyses[k].confidence * 1000

\* detect has returned with a verdict rejected for its confidence below the
\* threshold and a verdict of exactly the threshold accepted, for a pair
\* above the similarity threshold: the confidence of its issue is above the
\* confidence of the verdict
C19_Witness ==
  /\ textPc = "returned"
  /\ \E a \in 1..Len(analysed) :
       analysed[a].contradiction /\ analysed[a].confidence < ConfidenceThreshold
  /\ \E k \in 1..Len(AcceptedAnalyses) :
       /\ AcceptedAnalyses[k].confidence = ConfidenceThreshold
       /\ CosineSimilarity(embeddings[AcceptedAnalyses[k].i], embeddings[AcceptedAnalyses[k].j])
            > SimilarityThreshold
       /\ textIssues[k].confidence > ConfidenceThreshold * 1000

\* the two texts of the a-th analysis, without their order
TextsOf(a) ==
  {business_claims[analysed[a].i].claim, business_claims[analysed[a].j].claim}

\* a step adds to the cache and changes or removes no entry of it
CacheAppendOnly ==
  \A k \in DOMAIN contradiction_cache :
    k \in DOMAIN contradiction_cache' /\ contradiction_cache'[k] = contradiction_cache[k]

\* C20 as stated: within one run the oracle is asked at most once for an
\* unordered pair of claim texts; a later analysis of the same two texts, in
\* either order, is answered from the cache with the verdict first obtained
\* and asks nothing; no entry of the cache is overwritten or removed.
C20_OracleOncePerUnorderedPair ==
  /\ [](\A a, b \in 1..Len(analysed) :
          (a < b /\ TextsOf(a) = TextsOf(b)) =>
            /\ analysed[b].from = "cache"
            /\ analysed[b].contradiction = analysed[a].contradiction
            /\ analysed[b].confidence = analysed[a].confidence)
  /\ [][CacheAppendOnly]_vars

\* C20 amended: once the oracle has given a verdict for an unordered pair of
\* claim texts, every later analysis of the same two texts, in either order,
\* is answered from the cache with that verdict and asks nothing (a request
\* that fails caches nothing and the pair is asked about again); the oracle
\* is asked exactly once for each analysis not answered from the cache; no
\* entry of the cache is overwritten or removed.
C20_VerdictCachedPerUnorderedPair ==
  /\ [](\A a, b \in 1..Len(analysed) :
          (a < b /\ TextsOf(a) = TextsOf(b) /\ analysed[a].from \in {"verdict", "cache"}) =>
            /\ analysed[b].from = "cache"
            /\ analysed[b].contradiction = analysed[a].contradiction
            /\ analysed[b].confidence = analysed[a].confidence)
  /\ [](Len(oracleCalls) = Len(SelectSeq(analysed, LAMBDA a : a.from /= "cache")))
  /\ [][CacheAppendOnly]_vars

\* the same two texts were analysed twice, in the two orders: the first
\* analysis got a verdict from the oracle, the second was answered from the
\* cache
C20_Witness ==
  \E a, b \in 1..Len(analysed) :
    /\ a < b
    /\ business_claims[analysed[a].i].claim = business_claims[analysed[b].j].claim
    /\ business_claims[analysed[a].j].claim = business_claims[analysed[b].i].claim
    /\ business_claims[analysed[a].i].claim /= business_claims[analysed[a].j].claim
    /\ analysed[a].from = "verdict"
    /\ analysed[b].from = "cache"
    /\ Len(oracleCalls) < Len(analysed)

\* the value of the digits of a text, its commas, point and sign left out
RECURSIVE DigitsOf(_)
DigitsOf(str) ==
  IF str = <<>> THEN 0
  ELSE LET c == str[Len(str)]
           before == DigitsOf(SubSeq(str, 1, Len(str) - 1))
       IN IF c \in {",", ".", "-"} THEN before
          ELSE before * 10
                 + (CASE c = "0" -> 0 [] c = "1" -> 1 [] c = "2" -> 2 [] c = "3" -> 3
                      [] c = "5" -> 5)

\* the number of digits after the point of a text
DecimalsOf(str) ==
  IF \E k \in 1..Len(str) : str[k] = "."
    THEN Len(str) - (CHOOSE k \in 1..Len(str) : str[k] = ".")
    ELSE 0

\* v is the value m * 10^e
IsValue(v, m, e) ==
  IF m = 0 THEN v.m = 0
  ELSE \E z \in 0..(MaxNumberLen + 1) :
         /\ v.e = e + z
         /\ v.m * (10 ^ z) = m

\* C21: _normalize_value removes the thousands separators and multiplies by
\* the magnitude of the suffix in either case: K by 1,000, M by 1,000,000, B
\* by 1,000,000,000, T by 1,000,000,000,000, and no suffix leaves the value
\* as it is; ("2", "K") gives 2000, ("1.5", "M") 1500000, ("3", "B") 3e9,
\* ("1", "T") 1e12 and ("2,500", no suffix) 2500.
C21_NormalizeValueScalesBySuffix ==
  normPc = "done" =>
    LET digits == IF number_str[1] = "-" THEN -DigitsOf(number_str) ELSE DigitsOf(number_str)
        magnitude == CASE suffix \in {"K", "k"} -> 3
                       [] suffix \in {"M", "m"} -> 6
                       [] suffix \in {"B", "b"} -> 9
                       [] suffix \in {"T", "t"} -> 12
                       [] suffix = "None" -> 0
    IN /\ IsValue(normalized, digits, magnitude - DecimalsOf(number_str))
       /\ (number_str = <<"2">> /\ suffix = "K") => normalized = [m |-> 2, e |-> 3]
       /\ (number_str = <<"1", ".", "5">> /\ suffix = "M") => normalized = [m |-> 15, e |-> 5]
       /\ (number_str = <<"3">> /\ suffix = "B") => normalized = [m |-> 3, e |-> 9]
       /\ (number_str = <<"1">> /\ suffix = "T") => normalized = [m |-> 1, e |-> 12]
       /\ (number_str = <<"2", ",", "5", "0", "0">> /\ suffix = "None") =>
            normalized = [m |-> 25, e |-> 2]

\* "2,500" with the suffix k has been normalized to 2500000
C21_Witness ==
  /\ normPc = "done"
  /\ number_str = <<"2", ",", "5", "0", "0">>
  /\ suffix = "k"
  /\ normalized = [m |-> 25, e |-> 5]

\* how often x is in the sequence xs
CountIn(xs, x) == Cardinality({k \in 1..Len(xs) : xs[k] = x})

\* a and b are within the tolerance of 1 per cent of the larger of them
WithinOnePercent(a, b) ==
  \/ a = 0 /\ b = 0
  \/ /\ a /= 0
     /\ b /= 0
     /\ (IF a >= b THEN a - b ELSE b - a) * 100
          <= (IF Abs(a) >= Abs(b) THEN Abs(a) ELSE Abs(b))

\* the orders of the occurrences given
OrdersOf(xs) ==
  {[k \in 1..Len(xs) |-> xs[f[k]]] :
     f \in {g \in [1..Len(xs) -> 1..Len(xs)] : \A a, b \in 1..Len(xs) : a /= b => g[a] /= g[b]}}

\* C22: _group_by_tolerance puts every occurrence in exactly one cluster;
\* an occurrence is in the earliest-created cluster whose first member (the
\* representative) is within tolerance of it, and starts a cluster of its own
\* when there is none. (That some order of the same occurrences gives other
\* clusters is what the witness shows.)
C22_JoinsEarliestClusterOfRepresentative ==
  groupPc = "done" =>
    LET all == Flatten(tolerance_groups) IN
    /\ Len(all) = Len(grouped_occurrences)
    /\ \A k \in 1..Len(all) : CountIn(all, all[k]) = CountIn(grouped_occurrences, all[k])
    /\ \A g \in 1..Len(tolerance_groups) :
         /\ tolerance_groups[g] /= <<>>
         /\ \A k \in 1..Len(tolerance_groups[g]) :
              /\ WithinOnePercent(tolerance_groups[g][k].value, tolerance_groups[g][1].value)
              /\ \A h \in 1..(g - 1) :
                   ~WithinOnePercent(tolerance_groups[g][k].value, tolerance_groups[h][1].value)

\* 101, 100 and 102 were put in one cluster, and in another order (100 first)
\* the same occurrences make two clusters
C22_Witness ==
  /\ groupPc = "done"
  /\ Len(grouped_occurrences) = 3
  /\ Len(tolerance_groups) = 1
  /\ tolerance_groups[1][1].value = 101
  /\ \E other \in OrdersOf(grouped_occurrences) : Len(GroupByTolerance(other)) = 2

\* C23 as stated: any two members of one cluster are within tolerance of
\* each other.
C23_ClusterMembersMutuallyWithinTolerance ==
  groupPc = "done" =>
    \A g \in 1..Len(tolerance_groups) :
      \A a, b \in 1..Len(tolerance_groups[g]) :
        WithinOnePercent(tolerance_groups[g][a].value, tolerance_groups[g][b].value)

\* C23 amended: every member of a cluster is within tolerance of the first
\* member of the cluster, the representative.
C23_ClusterMembersWithinToleranceOfFirst ==
  groupPc = "done" =>
    \A g \in 1..Len(tolerance_groups) :
      \A a \in 1..Len(tolerance_groups[g]) :
        WithinOnePercent(tolerance_groups[g][a].value, tolerance_groups[g][1].value)

\* a cluster of a representative and two more values, which are not within
\* tolerance of each other
C23_Witness ==
  /\ groupPc = "done"
  /\ \E g \in 1..Len(tolerance_groups) :
       /\ Len(tolerance_groups[g]) = 3
       /\ ~WithinOnePercent(tolerance_groups[g][2].value, tolerance_groups[g][3].value)

\* the Issues of one type the timeline detector returned
TimelineIssuesOfType(issue_type) ==
  SelectSeq(timelineIssues, LAMBDA issue : issue.issue_type = issue_type)

\* the pairs (f, p) of positions of extracted events: f typed future, p typed
\* past, on different slides, f dated strictly before p, the two related
FutureBeforePastPairs ==
  {pair \in (DOMAIN timeline_events) \X (DOMAIN timeline_events) :
     LET f == timeline_events[pair[1]]
         p == timeline_events[pair[2]]
     IN /\ f.slide_num /= p.slide_num
        /\ f.event_type = "future" /\ p.event_type = "past"
        /\ f.date < p.date
        /\ EventsSeemRelated(f, p)}

\* C24: the detector returns one chronological_mismatch for each pair of
\* events on different slides of which one is typed future, the other past,
\* the future one is dated strictly before the past one and the two are
\* related, and none else; the Issue names the slide of the future event and
\* the slide of the past event.
C24_MismatchIffFutureStrictlyBeforeRelatedPast ==
  timelinePc = "done" =>
    LET mismatches == TimelineIssuesOfType("chronological_mismatch")
    IN /\ Len(mismatches) = Cardinality(FutureBeforePastPairs)
       /\ \A pair \in FutureBeforePastPairs :
            \E k \in 1..Len(mismatches) :
              mismatches[k].slides = <<timeline_events[pair[1]].slide_num,
                                       timeline_events[pair[2]].slide_num>>
       /\ \A k \in 1..Len(mismatches) :
            \E pair \in FutureBeforePastPairs :
              mismatches[k].slides = <<timeline_events[pair[1]].slide_num,
                                       timeline_events[pair[2]].slide_num>>

C24_Witness ==
  /\ timelinePc = "done"
  /\ FutureBeforePastPairs /= {}
  /\ Len(TimelineIssuesOfType("chronological_mismatch")) = 1

\* the dampening factor of a type of timeline finding, in percent
DampeningFactor(issue_type) ==
  CASE issue_type = "chronological_mismatch" -> 90
    [] issue_type = "impossible_timeline" -> 90
    [] issue_type = "completion_conflict" -> 80
    [] issue_type = "deadline_violation" -> 85

\* the slides a finding of the type names for the events first and second
SlidesOfFinding(issue_type, first, second) ==
  IF issue_type = "impossible_timeline" THEN <<first.slide_num>>
  ELSE <<first.slide_num, second.slide_num>>

\* C25, as stated: the confidence of a timeline finding is the product of the
\* confidences of its two events times the dampening factor of its type.
C25_ConfidenceIsProductTimesFactor ==
  \A k \in 1..Len(timelineIssues) :
    LET issue == timelineIssues[k]
    IN \E i, j \in DOMAIN timeline_events :
         /\ i /= j
         /\ issue.slides = SlidesOfFinding(issue.issue_type, timeline_events[i],
                                           timeline_events[j])
         /\ issue.confidence * 100 =
              timeline_events[i].confidence * timeline_events[j].confidence
                * DampeningFactor(issue.issue_type)

\* C25, amended: the confidence of a timeline finding is the smaller of the
\* confidences of its two events times the dampening factor of its type.
C25_ConfidenceIsMinTimesFactor ==
  \A k \in 1..Len(timelineIssues) :
    LET issue == timelineIssues[k]
    IN \E i, j \in DOMAIN timeline_events :
         /\ i /= j
         /\ issue.slides = SlidesOfFinding(issue.issue_type, timeline_events[i],
                                           timeline_events[j])
         /\ issue.confidence =
              Min(timeline_events[i].confidence, timeline_events[j].confidence)
                * DampeningFactor(issue.issue_type)

C25_Witness ==
  /\ timelinePc = "done"
  /\ Len(timeline_events) = 2
  /\ timeline_events[1].confidence /= timeline_events[2].confidence
  /\ Len(TimelineIssuesOfType("completion_conflict")) = 1

\* the extracted events of slide n
EventsOfSlide(n) ==
  {e \in Range(timeline_events) : e.slide_num = n}

C29_DeadlineViolationComesWithCompletionConflict ==
  \A k \in 1..Len(timelineIssues) :
    timelineIssues[k].issue_type = "deadline_violation" =>
      \E i, j \in DOMAIN timeline_events :
        /\ timelineIssues[k] = DeadlineIssue(timeline_events[i], timeline_events[j])
        /\ \E m \in 1..Len(timelineIssues) :
             /\ timelineIssues[m] = CompletionIssue(timeline_events[i], timeline_events[j])
             /\ timelineIssues[m].slides = timelineIssues[k].slides
             /\ ~IssueEq(timelineIssues[m], timelineIssues[k])
             /\ ~IssueEq(timelineIssues[k], timelineIssues[m])

C29_Witness ==
  /\ timelinePc = "done"
  /\ Len(TimelineIssuesOfType("deadline_violation")) = 1
  /\ Len(TimelineIssuesOfType("completion_conflict")) = 1
  /\ Len(timelineIssues) = 2

\* C26: the date of every event extracted from a sentence has a year from
\* 1980 to the current year plus 30, whatever the form of the date string.
C26_ExtractedYearWithinRange ==
  \A i \in 1..Len(sentence_dates) :
    /\ 1980 <= YearOf(sentence_dates[i])
    /\ YearOf(sentence_dates[i]) <= current_year + 30

\* the words of a description that are no stopwords
NonStopwords(description) == LowerWords(description) \ CommonWords

\* C27: two events are unrelated when a description has no word left
\* without its stopwords; otherwise they are related exactly when the number
\* of shared words over the smaller number of words, plus 0.2 if both hold a
\* project-like word, is above 0.25 (multiplied out by 20 times the smaller
\* number).  The answer is the same in either order, and two events sharing
\* no word are unrelated.
C27_RelatedIffOverlapRatioAboveQuarter ==
  relatedPc = "done" =>
    LET W1 == NonStopwords(description1)
        W2 == NonStopwords(description2)
        shared == Cardinality(W1 \cap W2)
        least == Min(Cardinality(W1), Cardinality(W2))
        bonus == IF W1 \cap ProjectTerms /= {} /\ W2 \cap ProjectTerms /= {} THEN 1 ELSE 0
    IN /\ related12 = related21
       /\ (W1 = {} \/ W2 = {}) => ~related12
       /\ (W1 /= {} /\ W2 /= {}) =>
            (related12 <=> 20 * shared + 4 * bonus * least > 5 * least)
       /\ W1 \cap W2 = {} => ~related12

C27_Witness ==
  /\ relatedPc = "done"
  /\ related12
  /\ Cardinality(NonStopwords(description1)) = 4
  /\ Cardinality(NonStopwords(description2)) = 4
  /\ Cardinality(NonStopwords(description1) \cap NonStopwords(description2)) = 1

\* the positions of the requests among the hub's events
HubRequests == {k \in 1..Len(hubEvents) : IsRequest(hubEvents[k])}

\* C30: over the whole run of the hub a sleep of request_delay lies between
\* any two requests, the last slide's request and the first cross-slide
\* request included.
C30_DelayBetweenConsecutiveRequests ==
  \A k, l \in HubRequests :
    k < l => \E j \in HubSleeps :
               k < j /\ j < l /\ hubEvents[j].secs = RequestDelay

====
